---- MODULE Spec2Model ----
(***************************************************************************)
(* Model of the shared-portfolio application: the price resolution of      *)
(* price_fetcher.py (fetch_stock_prices, get_historical_data) over the     *)
(* holdings of config.py, with the market data source (yfinance) as a      *)
(* nondeterministic environment.                                           *)
(*                                                                         *)
(* Prices and quantities are small integers; a percentage, which the code  *)
(* computes in floating point, is an exact rational [num, den] in lowest   *)
(* terms (rounding is not modelled).  A Python dict is a record whose      *)
(* DOMAIN is its key set, so an absent key is an absent field.             *)
(***************************************************************************)
EXTENDS Integers, Sequences, FiniteSets, TLC

VARIABLES
    call,            \* the method of PriceFetcher that is running
    stocks,          \* its argument: the list of holdings
    period,          \* get_historical_data's period argument ("-" in fetch_stock_prices)
    pc,              \* "loop" while iterating, then "returned" or "raised"
    i,               \* position of the for loop in stocks (1-based)
    updated_stocks,  \* the result list under construction
    failed_symbols,  \* the failed-symbol list under construction
    lookups,         \* the calls of ticker.history so far: [index, symbol, result]
    user,            \* the user whose dashboard is rendered (NoUser outside a render)
    shown,           \* what the dashboard has computed so far in this render
    cache,           \* st.cache_data of fetch_prices: language -> entry or NoEntry
    now,             \* the clock, in seconds
    authenticated,   \* st.session_state.authenticated
    current_user,    \* st.session_state.current_user (NoUser for None)
    user_messages,   \* the content of user_messages.json: username -> lists
    user_data,       \* the content of user_data.json: username -> login record
    threads          \* the calls of the message system in progress, one per session

\* the state of the price fetcher
fetchvars == <<call, stocks, period, pc, i, updated_stocks, failed_symbols, lookups>>

\* the state of the dashboard
viewvars == <<user, shown>>

\* the state of the application around them
appvars == <<cache, now>>

\* the state of the session
authvars == <<authenticated, current_user>>

\* the state of the message system
msgvars == <<user_messages, user_data, threads>>

vars == <<call, stocks, period, pc, i, updated_stocks, failed_symbols, lookups,
          user, shown, cache, now,
          authenticated, current_user, user_messages, user_data, threads>>

----------------------------------------------------------------------------
(* Bounds *)

\* longest list of holdings passed to a method
MaxStocks == 2
\* most sessions in the series answering fetch_stock_prices' period="1d"
MaxRecent == 2
\* most sessions in the series answering get_historical_data
MaxHist == 3

\* closing prices the market data source may report (negative and zero included)
CloseVals == {0 - 1, 0, 2}
\* opening prices the market data source may report
OpenVals == {1, 3}
\* closing prices of a historical series: 2 -> 3 is a rise of exactly 50 %
HistCloseVals == {0 - 1, 0, 2, 3}
\* opening prices of a historical series
HistOpenVals == {1}

----------------------------------------------------------------------------
(* Python values *)

\* Python's None where a number is expected (previous_close)
None == 0 - 1000

\* Python's None where a string is expected (industry)
NoneStr == "None"

\* no dashboard is being rendered
NoUser == [username |-> "-"]

\* the dashboard has computed nothing yet
NothingShown == [stage |-> "-"]

\* the languages of translations.py
Languages == {"en", "de"}

\* no cached result
NoEntry == [at |-> 0 - 1]

\* the cache after st.cache_data.clear(), and at process start
EmptyCache == [l \in Languages |-> NoEntry]

\* the dict {}
EmptyDict == <<>>

\* d[k] = v on a copy of dict d
Put(d, k, v) == (k :> v) @@ d

\* k in d
Has(d, k) == k \in DOMAIN d

\* d.get(k, dflt)
Get(d, k, dflt) == IF k \in DOMAIN d THEN d[k] ELSE dflt

\* series.iloc[-1]
ILocLast(s) == s[Len(s)]

\* series.iloc[-2]
ILocPrev(s) == s[Len(s) - 1]

\* series.iloc[0]
ILocFirst(s) == s[1]

----------------------------------------------------------------------------
(* Exact arithmetic for percentages *)

Abs(n) == IF n < 0 THEN 0 - n ELSE n

RECURSIVE Gcd(_, _)
Gcd(a, b) == IF b = 0 THEN a ELSE Gcd(b, a % b)

\* the rational n/d (d # 0) in lowest terms with a positive denominator
Rat(n, d) ==
    LET g == Gcd(Abs(n), Abs(d))
        s == IF d < 0 THEN 0 - 1 ELSE 1
    IN  [num |-> (s * n) \div g, den |-> (s * d) \div g]

RatMul(q, k) == Rat(q.num * k, q.den)

\* the float 0.0 (and the int 0, which Python compares equal to it)
Zero == [num |-> 0, den |-> 1]

----------------------------------------------------------------------------
(* Configuration: config.py *)

\* the holdings of STOCKS, abstracted to two securities and the cash position
Holdings ==
    { [symbol |-> "AGIF", quantity |-> 5, price |-> 4, name |-> "Index Fund", industry |-> "Index"],
      [symbol |-> "BP",   quantity |-> 3, price |-> 5, name |-> "BP",         industry |-> "Oil & Gas"],
      [symbol |-> "CASH", quantity |-> 7, price |-> 1, name |-> "Cash",       industry |-> NoneStr] }

\* the lists of holdings a method may be given: distinct symbols, any order
StockLists ==
    { s \in UNION { [1..n -> Holdings] : n \in 0..MaxStocks } :
        \A a, b \in DOMAIN s : a # b => s[a].symbol # s[b].symbol }

----------------------------------------------------------------------------
(* The market data source: yf.Ticker(symbol).history(period=...) *)

\* a price series of n sessions, with or without the Open column
FramesOfLen(n, closes, opens) ==
    { [Close |-> c, columns |-> {"Close"}, Open |-> <<>>] : c \in [1..n -> closes] }
    \cup
    { [Close |-> c, columns |-> {"Close", "Open"}, Open |-> o] :
        c \in [1..n -> closes], o \in [1..n -> opens] }

\* what one call of history can do: raise, or return a series of 0..maxLen sessions
Results(maxLen, closes, opens) ==
    { [kind |-> "raise"] }
    \cup
    { [kind |-> "ok", hist |-> h] :
        h \in UNION { FramesOfLen(n, closes, opens) : n \in 0..maxLen } }

\* hist.empty
Empty(hist) == Len(hist.Close) = 0

----------------------------------------------------------------------------
(* PriceFetcher.fetch_stock_prices *)

\* mutant of IsCash: the symbol is compared with the holding's display name
IsCashByName(stock) == stock.symbol = "Cash"

\* the test "symbol == 'CASH'" that makes the loop skip the lookup
IsCash(stock) == stock.symbol = "CASH"

\* mutant of PreviousClose: the session's open is preferred to the previous close
PreviousCloseOpenFirst(hist) ==
    IF "Open" \in hist.columns THEN ILocLast(hist.Open)
    ELSE IF Len(hist.Close) > 1 THEN ILocPrev(hist.Close)
    ELSE None

\* previous_close of a non-empty series
PreviousClose(hist) ==
    IF Len(hist.Close) > 1 THEN ILocPrev(hist.Close)
    ELSE IF "Open" \in hist.columns THEN ILocLast(hist.Open)
    ELSE None

\* mutant of LiveStock: the live record is tagged 'default'
LiveStockTaggedDefault(stock, hist) ==
    Put(Put(Put(stock, "current_price", ILocLast(hist.Close)),
            "previous_close", PreviousClose(hist)),
        "price_source", "default")

\* the record appended when the series is not empty
LiveStock(stock, hist) ==
    Put(Put(Put(stock, "current_price", ILocLast(hist.Close)),
            "previous_close", PreviousClose(hist)),
        "price_source", "live")

\* mutant of DefaultStock: the fallback record gets no current_price
DefaultStockNoPrice(stock) ==
    Put(Put(stock, "previous_close", stock.price), "price_source", "default")

\* mutant of DefaultStock: the fallback record's previous_close stays None
DefaultStockNoPrevious(stock) ==
    Put(Put(Put(stock, "current_price", stock.price),
            "previous_close", None),
        "price_source", "default")

\* mutant of DefaultStock: the fallback record has a previous close of 0
DefaultStockPreviousZero(stock) ==
    Put(Put(Put(stock, "current_price", stock.price),
            "previous_close", 0),
        "price_source", "default")

\* the record appended when the series is empty or the lookup raised
DefaultStock(stock) ==
    Put(Put(Put(stock, "current_price", stock.price),
            "previous_close", stock.price),
        "price_source", "default")

\* mutant of ResolveStock: no except clause, the lookup's exception propagates
ResolveStockNoExcept(stock, res) ==
    IF res.kind = "raise"
    THEN [entry |-> stock, failed |-> FALSE, raised |-> TRUE]
    ELSE IF ~Empty(res.hist)
         THEN [entry |-> LiveStock(stock, res.hist), failed |-> FALSE, raised |-> FALSE]
         ELSE [entry |-> DefaultStock(stock), failed |-> TRUE, raised |-> FALSE]

\* mutant of ResolveStock: the empty-series branch forgets failed_symbols.append
ResolveStockEmptyNotFailed(stock, res) ==
    IF res.kind = "raise"
    THEN [entry |-> DefaultStock(stock), failed |-> TRUE, raised |-> FALSE]
    ELSE IF ~Empty(res.hist)
         THEN [entry |-> LiveStock(stock, res.hist), failed |-> FALSE, raised |-> FALSE]
         ELSE [entry |-> DefaultStock(stock), failed |-> FALSE, raised |-> FALSE]

\* the try/except around one lookup: the record to append, whether the symbol
\* is appended to failed_symbols, and whether an exception leaves the method
ResolveStock(stock, res) ==
    IF res.kind = "raise"
    THEN [entry |-> DefaultStock(stock), failed |-> TRUE, raised |-> FALSE]
    ELSE IF ~Empty(res.hist)
         THEN [entry |-> LiveStock(stock, res.hist), failed |-> FALSE, raised |-> FALSE]
         ELSE [entry |-> DefaultStock(stock), failed |-> TRUE, raised |-> FALSE]

\* what the loop appends for the cash holding: stock.copy()
CashStock(stock) == stock

\* stock.get('current_price', stock['price']): the price every valuation uses
CurrentPrice(stock) == Get(stock, "current_price", stock.price)

\* mutant of InputAfter: updated_stock = stock, so the writes reach the input
InputAfterAliased(s, k, entry) == [s EXCEPT ![k] = entry]

\* the input list after the record of holding k was built: updated_stock is
\* stock.copy(), so the writes to it leave the input as it was
InputAfter(s, k, entry) == s

\* the state on entry of the loop of fetch_stock_prices(stocks)
FetchInit ==
    /\ call = "fetch_stock_prices"
    /\ stocks \in StockLists
    /\ period = "-"
    /\ pc = "loop"
    /\ i = 1
    /\ updated_stocks = <<>>
    /\ failed_symbols = <<>>
    /\ lookups = <<>>
    /\ user = NoUser
    /\ shown = NothingShown
    /\ cache = EmptyCache
    /\ now = 0
    /\ authenticated = FALSE /\ current_user = NoUser
    /\ user_messages = EmptyDict /\ user_data = EmptyDict /\ threads = <<>>

\* one iteration on the cash holding
FetchCash ==
    /\ call = "fetch_stock_prices" /\ pc = "loop" /\ i <= Len(stocks)
    /\ IsCash(stocks[i])
    /\ updated_stocks' = Append(updated_stocks, CashStock(stocks[i]))
    /\ stocks' = InputAfter(stocks, i, CashStock(stocks[i]))
    /\ i' = i + 1
    /\ UNCHANGED <<call, period, pc, failed_symbols, lookups>>
    /\ UNCHANGED <<viewvars, appvars>>
    /\ UNCHANGED <<authvars, msgvars>>

\* mutant of FetchLookup: a failed lookup is tried again
FetchLookupRetry ==
    /\ call = "fetch_stock_prices" /\ pc = "loop" /\ i <= Len(stocks)
    /\ ~IsCash(stocks[i])
    /\ \E res \in Results(MaxRecent, CloseVals, OpenVals) :
         LET r == ResolveStock(stocks[i], res) IN
         /\ lookups' = Append(lookups, [index |-> i, symbol |-> stocks[i].symbol, result |-> res])
         /\ IF r.raised \/ r.failed
            THEN UNCHANGED <<i, stocks, updated_stocks, failed_symbols, pc>>
            ELSE /\ updated_stocks' = Append(updated_stocks, r.entry)
                 /\ stocks' = InputAfter(stocks, i, r.entry)
                 /\ failed_symbols' = failed_symbols
                 /\ i' = i + 1
                 /\ pc' = pc
    /\ UNCHANGED <<call, period>>
    /\ UNCHANGED <<viewvars, appvars>>
    /\ UNCHANGED <<authvars, msgvars>>

\* one iteration on any other holding: one lookup and its resolution
FetchLookup ==
    /\ call = "fetch_stock_prices" /\ pc = "loop" /\ i <= Len(stocks)
    /\ ~IsCash(stocks[i])
    /\ \E res \in Results(MaxRecent, CloseVals, OpenVals) :
         LET r == ResolveStock(stocks[i], res) IN
         /\ lookups' = Append(lookups, [index |-> i, symbol |-> stocks[i].symbol, result |-> res])
         /\ IF r.raised
            THEN /\ pc' = "raised"
                 /\ UNCHANGED <<i, stocks, updated_stocks, failed_symbols>>
            ELSE /\ updated_stocks' = Append(updated_stocks, r.entry)
                 /\ stocks' = InputAfter(stocks, i, r.entry)
                 /\ failed_symbols' =
                        IF r.failed THEN Append(failed_symbols, stocks[i].symbol)
                        ELSE failed_symbols
                 /\ i' = i + 1
                 /\ pc' = pc
    /\ UNCHANGED <<call, period>>
    /\ UNCHANGED <<viewvars, appvars>>
    /\ UNCHANGED <<authvars, msgvars>>

\* the loop is exhausted: return updated_stocks, failed_symbols
FetchReturn ==
    /\ call = "fetch_stock_prices" /\ pc = "loop" /\ i > Len(stocks)
    /\ pc' = "returned"
    /\ UNCHANGED <<call, stocks, period, i, updated_stocks, failed_symbols, lookups>>
    /\ UNCHANGED <<viewvars, appvars>>
    /\ UNCHANGED <<authvars, msgvars>>

Init == FetchInit

Next == FetchCash \/ FetchLookup \/ FetchReturn

Spec == Init /\ [][Next]_vars

----------------------------------------------------------------------------
(* PriceFetcher.get_historical_data *)

\* the periods the dashboard's selector offers
Periods == {"1d", "1w", "1m", "1y"}

\* period_map.get(period, '2d'): the window asked of the market data source
YfPeriod(p) ==
    CASE p = "1d" -> "2d"
      [] p = "1w" -> "1wk"
      [] p = "1m" -> "1mo"
      [] p = "1y" -> "1y"
      [] OTHER    -> "2d"

\* the test "not hist.empty and len(hist) >= 2" that selects the live branch
HistUsable(hist) == ~Empty(hist) /\ Len(hist.Close) >= 2

\* mutant of PreviousPrice: the earliest close is the reference for every period
PreviousPriceEarliest(hist, p) == ILocFirst(hist.Close)

\* previous_price: the reference close of the change
PreviousPrice(hist, p) ==
    IF p = "1d"
    THEN IF Len(hist.Close) > 1 THEN ILocPrev(hist.Close) ELSE ILocLast(hist.Open)
    ELSE ILocFirst(hist.Close)

\* change_percentage: the guarded percentage change
ChangePercentage(current_price, previous_price) ==
    IF previous_price > 0
    THEN RatMul(Rat(current_price - previous_price, previous_price), 100)
    ELSE Zero

\* the record appended in the live branch
LiveHistStock(stock, hist, p) ==
    LET current_price == ILocLast(hist.Close)
        previous_price == PreviousPrice(hist, p)
    IN  Put(Put(Put(Put(Put(stock, "current_price", current_price),
                        "previous_price", previous_price),
                    "historical_change", ChangePercentage(current_price, previous_price)),
                "period", p),
            "price_source", "live")

\* the record appended in the fallback branch and in the except clause
DefaultHistStock(stock, p) ==
    Put(Put(Put(Put(Put(stock, "current_price", stock.price),
                    "previous_price", stock.price),
                "historical_change", Zero),
            "period", p),
        "price_source", "default")

\* the record appended for the cash holding
CashHistStock(stock, p) == Put(Put(stock, "historical_change", Zero), "period", p)

\* the try/except around one lookup: the record to append and whether an
\* exception leaves the method
ResolveHistorical(stock, res, p) ==
    IF res.kind = "raise"
    THEN [entry |-> DefaultHistStock(stock, p), raised |-> FALSE]
    ELSE IF HistUsable(res.hist)
         THEN [entry |-> LiveHistStock(stock, res.hist, p), raised |-> FALSE]
         ELSE [entry |-> DefaultHistStock(stock, p), raised |-> FALSE]

\* what history(period=yf_period) can do; the series carries its Open column,
\* which get_historical_data reads on no reachable path
HistResults ==
    { r \in Results(MaxHist, HistCloseVals, HistOpenVals) :
        r.kind = "ok" => "Open" \in r.hist.columns }

\* the state on entry of the loop of get_historical_data(stocks, period)
HistInit ==
    /\ call = "get_historical_data"
    /\ stocks \in StockLists
    /\ period \in Periods
    /\ pc = "loop"
    /\ i = 1
    /\ updated_stocks = <<>>
    /\ failed_symbols = <<>>
    /\ lookups = <<>>
    /\ user = NoUser
    /\ shown = NothingShown
    /\ cache = EmptyCache
    /\ now = 0
    /\ authenticated = FALSE /\ current_user = NoUser
    /\ user_messages = EmptyDict /\ user_data = EmptyDict /\ threads = <<>>

\* one iteration on the cash holding
HistCash ==
    /\ call = "get_historical_data" /\ pc = "loop" /\ i <= Len(stocks)
    /\ stocks[i].symbol = "CASH"
    /\ updated_stocks' = Append(updated_stocks, CashHistStock(stocks[i], period))
    /\ stocks' = InputAfter(stocks, i, CashHistStock(stocks[i], period))
    /\ i' = i + 1
    /\ UNCHANGED <<call, period, pc, failed_symbols, lookups>>
    /\ UNCHANGED <<viewvars, appvars>>
    /\ UNCHANGED <<authvars, msgvars>>

\* one iteration on any other holding: one lookup and its resolution
HistLookup ==
    /\ call = "get_historical_data" /\ pc = "loop" /\ i <= Len(stocks)
    /\ stocks[i].symbol # "CASH"
    /\ \E res \in HistResults :
         LET r == ResolveHistorical(stocks[i], res, period) IN
         /\ lookups' = Append(lookups, [index |-> i, symbol |-> stocks[i].symbol,
                                        yf_period |-> YfPeriod(period), result |-> res])
         /\ IF r.raised
            THEN /\ pc' = "raised"
                 /\ UNCHANGED <<i, stocks, updated_stocks>>
            ELSE /\ updated_stocks' = Append(updated_stocks, r.entry)
                 /\ stocks' = InputAfter(stocks, i, r.entry)
                 /\ i' = i + 1
                 /\ pc' = pc
    /\ UNCHANGED <<call, period, failed_symbols>>
    /\ UNCHANGED <<viewvars, appvars>>
    /\ UNCHANGED <<authvars, msgvars>>

\* the loop is exhausted: return updated_stocks
HistReturn ==
    /\ call = "get_historical_data" /\ pc = "loop" /\ i > Len(stocks)
    /\ pc' = "returned"
    /\ UNCHANGED <<call, stocks, period, i, updated_stocks, failed_symbols, lookups>>
    /\ UNCHANGED <<viewvars, appvars>>
    /\ UNCHANGED <<authvars, msgvars>>

HistNext == HistCash \/ HistLookup \/ HistReturn

SpecHist == HistInit /\ [][HistNext]_vars

----------------------------------------------------------------------------
(* Properties of fetch_stock_prices *)

Fetching == call = "fetch_stock_prices"

\* the lookup failed: it raised, or it returned an empty series
LookupFailed(res) == res.kind = "raise" \/ Empty(res.hist)

\* the symbols of a list of records, in order
RECURSIVE Symbols(_)
Symbols(s) == IF s = <<>> THEN <<>> ELSE <<Head(s).symbol>> \o Symbols(Tail(s))

\* the set of the elements of a sequence
Range(s) == { s[k] : k \in DOMAIN s }

\* the result record tagged 'default'
IsDefault(e) == Get(e, "price_source", "-") = "default"

\* C1: fetch_stock_prices never lets a lookup's exception out, every lookup
\* made so far has left its record (the loop went on after it), and the
\* returned list has exactly one record per input holding, in input order.
C1_OneEntryPerHolding ==
    Fetching =>
        /\ pc # "raised"
        /\ Len(updated_stocks) = i - 1
        /\ \A k \in DOMAIN updated_stocks : updated_stocks[k].symbol = stocks[k].symbol
        /\ pc = "returned" => Symbols(updated_stocks) = Symbols(stocks)

\* C1 witness: a call returned although its first lookup raised, and the
\* holding after it was resolved from a non-empty series.
C1_Witness ==
    /\ Fetching /\ pc = "returned" /\ Len(lookups) = 2
    /\ lookups[1].result.kind = "raise"
    /\ lookups[2].result.kind = "ok" /\ ~Empty(lookups[2].result.hist)
    /\ Len(updated_stocks) = 2

C3_DefaultIffFailed ==
    Fetching =>
        /\ \A k \in DOMAIN updated_stocks :
              IsDefault(updated_stocks[k]) <=>
                  \E j \in DOMAIN lookups :
                      lookups[j].index = k /\ LookupFailed(lookups[j].result)
        /\ \A j \in DOMAIN lookups :
              ~LookupFailed(lookups[j].result) =>
                  /\ Has(updated_stocks[lookups[j].index], "price_source")
                  /\ updated_stocks[lookups[j].index].price_source = "live"

\* C3 witness: one result holding a 'default' record after an empty series
\* and a 'live' record after a series with a point.
C3_Witness ==
    /\ Fetching /\ pc = "returned" /\ Len(lookups) = 2
    /\ lookups[1].result.kind = "ok" /\ Empty(lookups[1].result.hist)
    /\ IsDefault(updated_stocks[lookups[1].index])
    /\ ~LookupFailed(lookups[2].result)
    /\ updated_stocks[lookups[2].index].price_source = "live"

\* C4: failed_symbols is the list of the symbols of the records tagged
\* 'default', in order, one per record; no live or cash symbol is in it.
C4_FailedAreDefaults ==
    Fetching =>
        /\ failed_symbols = Symbols(SelectSeq(updated_stocks, IsDefault))
        /\ \A k \in DOMAIN updated_stocks :
              (stocks[k].symbol = "CASH" \/ Get(updated_stocks[k], "price_source", "-") = "live")
                  => stocks[k].symbol \notin Range(failed_symbols)

\* C4 witness: a returned result with a failed symbol and a live one.
C4_Witness ==
    /\ Fetching /\ pc = "returned"
    /\ Len(failed_symbols) = 1 /\ Len(lookups) = 2
    /\ lookups[1].result.kind = "ok" /\ Empty(lookups[1].result.hist)
    /\ failed_symbols[1] = lookups[1].symbol

\* C5: after a lookup that returned a point, current_price is the latest
\* close, price_source is 'live', and previous_close is the close before the
\* latest if there are two points, else the latest open if the series has
\* opens, else None.
C5_LiveFields ==
    Fetching =>
        \A j \in DOMAIN lookups :
            ~LookupFailed(lookups[j].result) =>
                LET h == lookups[j].result.hist
                    n == Len(h.Close)
                    e == updated_stocks[lookups[j].index]
                IN  /\ e.current_price = h.Close[n]
                    /\ e.price_source = "live"
                    /\ n >= 2 => e.previous_close = h.Close[n - 1]
                    /\ (n = 1 /\ "Open" \in h.columns) => e.previous_close = h.Open[1]
                    /\ (n = 1 /\ "Open" \notin h.columns) => e.previous_close = None

\* C5 witness: a result with a record from a two-point series that has opens
\* and a record from a one-point series without opens.
C5_Witness ==
    /\ Fetching /\ pc = "returned" /\ Len(lookups) = 2
    /\ ~LookupFailed(lookups[1].result) /\ ~LookupFailed(lookups[2].result)
    /\ Len(lookups[1].result.hist.Close) = 2
    /\ "Open" \in lookups[1].result.hist.columns
    /\ lookups[1].result.hist.Close[1] # lookups[1].result.hist.Close[2]
    /\ Len(lookups[2].result.hist.Close) = 1
    /\ "Open" \notin lookups[2].result.hist.columns
    /\ updated_stocks[lookups[2].index].previous_close = None

\* C6: after a lookup that raised or returned no point, the record has
\* current_price = previous_close = baseline price, price_source 'default',
\* and the holding's own fields unchanged.
C6_FallbackFields ==
    Fetching =>
        \A j \in DOMAIN lookups :
            LookupFailed(lookups[j].result) =>
                LET s == stocks[lookups[j].index]
                    e == updated_stocks[lookups[j].index]
                IN  /\ e.current_price = s.price
                    /\ e.previous_close = s.price
                    /\ e.price_source = "default"
                    /\ e.symbol = s.symbol /\ e.quantity = s.quantity /\ e.price = s.price
                    /\ e.name = s.name /\ e.industry = s.industry

\* C6 witness: a result with one record after a raised lookup and one after
\* an empty series.
C6_Witness ==
    /\ Fetching /\ pc = "returned" /\ Len(lookups) = 2
    /\ lookups[1].result.kind = "raise"
    /\ lookups[2].result.kind = "ok" /\ Empty(lookups[2].result.hist)

\* C7: a holding whose industry is null is never looked up, the price read
\* from its record is its baseline price, its record is not tagged 'default'
\* and its symbol is not in failed_symbols.
C7_CashBypassesLookup ==
    Fetching =>
        \A k \in DOMAIN stocks :
            stocks[k].industry = NoneStr =>
                /\ \A j \in DOMAIN lookups :
                      lookups[j].index # k /\ lookups[j].symbol # stocks[k].symbol
                /\ stocks[k].symbol \notin Range(failed_symbols)
                /\ k \in DOMAIN updated_stocks =>
                      /\ CurrentPrice(updated_stocks[k]) = stocks[k].price
                      /\ ~IsDefault(updated_stocks[k])

\* C7 witness: a returned result whose first holding is the cash holding,
\* followed by a holding that was looked up.
C7_Witness ==
    /\ Fetching /\ pc = "returned" /\ Len(stocks) = 2
    /\ stocks[1].industry = NoneStr
    /\ Len(updated_stocks) = 2 /\ Len(lookups) = 1

----------------------------------------------------------------------------
(* Properties of get_historical_data *)

Historical == call = "get_historical_data"

\* the result record tagged 'live'
IsLive(e) == Get(e, "price_source", "-") = "live"

\* the reference close the specification names for a non-empty series: the
\* close before the latest for 1d, the earliest close of the window otherwise
\* (for 1d it exists only in a series of two sessions or more)
ReferenceClose(h, p) == IF p = "1d" THEN h.Close[Len(h.Close) - 1] ELSE h.Close[1]

HasReferenceClose(h, p) == IF p = "1d" THEN Len(h.Close) >= 2 ELSE Len(h.Close) >= 1

\* q = n / d, for d # 0
RatIs(q, n, d) == q.num * d = n * q.den

\* C8 as stated: in every live historical record, historical_change is
\* (latest close - reference close) / reference close * 100.
C8_AsStated ==
    Historical =>
        \A j \in DOMAIN lookups :
            IsLive(updated_stocks[lookups[j].index]) =>
                LET h == lookups[j].result.hist
                    ref == ReferenceClose(h, period)
                    latest == h.Close[Len(h.Close)]
                IN  ref # 0 =>
                        RatIs(updated_stocks[lookups[j].index].historical_change,
                              (latest - ref) * 100, ref)

\* C8 amended: in every live historical record, historical_change is
\* (latest close - reference close) / reference close * 100 when the reference
\* close is positive, and 0 when it is zero or negative; the reference close
\* is the close before the latest for 1d and the earliest close otherwise.
C8_ChangeFromReference ==
    Historical =>
        \A j \in DOMAIN lookups :
            IsLive(updated_stocks[lookups[j].index]) =>
                LET h == lookups[j].result.hist
                    ref == ReferenceClose(h, period)
                    latest == h.Close[Len(h.Close)]
                    e == updated_stocks[lookups[j].index]
                IN  /\ e.previous_price = ref
                    /\ ref > 0 => RatIs(e.historical_change, (latest - ref) * 100, ref)
                    /\ ref <= 0 => e.historical_change = Zero

\* C8 witness: a 1y request whose window opens at 2 and closes at 3, with a
\* different close in between, gives exactly 50; the next holding's window
\* opens on a negative close.
C8_Witness ==
    /\ Historical /\ pc = "returned" /\ period = "1y" /\ Len(lookups) = 2
    /\ lookups[1].result.kind = "ok"
    /\ lookups[1].result.hist.Close = <<2, 0, 3>>
    /\ updated_stocks[lookups[1].index].historical_change = [num |-> 50, den |-> 1]
    /\ lookups[2].result.kind = "ok"
    /\ lookups[2].result.hist.Close = <<0 - 1, 3>>
    /\ IsLive(updated_stocks[lookups[2].index])

\* C9: whenever the reference close of a returned series is 0, the record's
\* historical_change is 0, no exception leaves the method, and the record is
\* live with the latest close as current_price.
C9_ZeroReferenceGuarded ==
    Historical =>
        /\ pc # "raised"
        /\ \A j \in DOMAIN lookups :
              LET res == lookups[j].result
                  e == updated_stocks[lookups[j].index]
              IN  (/\ res.kind = "ok"
                   /\ ~Empty(res.hist)
                   /\ HasReferenceClose(res.hist, period)
                   /\ ReferenceClose(res.hist, period) = 0)
                  => /\ e.historical_change = Zero
                     /\ IsLive(e)
                     /\ e.current_price = res.hist.Close[Len(res.hist.Close)]

\* the part of C9 that the live branch does satisfy: with two sessions or
\* more and a reference close of 0, the record is live, its change is 0 and
\* its current_price is the latest close.
C9_GuardInLiveBranch ==
    Historical =>
        /\ pc # "raised"
        /\ \A j \in DOMAIN lookups :
              LET res == lookups[j].result
                  e == updated_stocks[lookups[j].index]
              IN  (/\ res.kind = "ok"
                   /\ Len(res.hist.Close) >= 2
                   /\ ReferenceClose(res.hist, period) = 0)
                  => /\ e.historical_change = Zero
                     /\ IsLive(e)
                     /\ e.current_price = res.hist.Close[Len(res.hist.Close)]

\* C10: a historical record is tagged 'default', with the baseline price and
\* a change of 0, exactly when its lookup raised or returned no session, and
\* 'live' whenever the lookup returned a session; the result has one record
\* per input holding, in input order, each tagged with the requested period.
C10_SamePolicyAsFetch ==
    Historical =>
        /\ pc # "raised"
        /\ Len(updated_stocks) = i - 1
        /\ \A k \in DOMAIN updated_stocks :
              /\ updated_stocks[k].symbol = stocks[k].symbol
              /\ updated_stocks[k].period = period
        /\ pc = "returned" => Symbols(updated_stocks) = Symbols(stocks)
        /\ \A k \in DOMAIN updated_stocks :
              IsDefault(updated_stocks[k]) <=>
                  \E j \in DOMAIN lookups :
                      lookups[j].index = k /\ LookupFailed(lookups[j].result)
        /\ \A j \in DOMAIN lookups :
              LET e == updated_stocks[lookups[j].index] IN
              /\ ~LookupFailed(lookups[j].result) => IsLive(e)
              /\ IsDefault(e) =>
                    /\ e.current_price = stocks[lookups[j].index].price
                    /\ e.historical_change = Zero

\* the parts of C10 that do not depend on the one-session case: the shape of
\* the result, and the fields of every record tagged 'default'.
C10_ShapeAndFallbackFields ==
    Historical =>
        /\ pc # "raised"
        /\ Len(updated_stocks) = i - 1
        /\ \A k \in DOMAIN updated_stocks :
              /\ updated_stocks[k].symbol = stocks[k].symbol
              /\ updated_stocks[k].period = period
        /\ pc = "returned" => Symbols(updated_stocks) = Symbols(stocks)
        /\ \A j \in DOMAIN lookups :
              LET e == updated_stocks[lookups[j].index] IN
              /\ LookupFailed(lookups[j].result) => IsDefault(e)
              /\ IsDefault(e) =>
                    /\ e.current_price = stocks[lookups[j].index].price
                    /\ e.historical_change = Zero

----------------------------------------------------------------------------
(* More exact arithmetic: the amounts and ratios of the valuation *)

\* the number n as a rational
RatOfInt(n) == [num |-> n, den |-> 1]

RatAdd(q, r) == Rat(q.num * r.den + r.num * q.den, q.den * r.den)

RatSub(q, r) == Rat(q.num * r.den - r.num * q.den, q.den * r.den)

RatTimes(q, r) == Rat(q.num * r.num, q.den * r.den)

\* q / r, for r # 0
RatDivide(q, r) == Rat(q.num * r.den, q.den * r.num)

\* q > 0
RatPositive(q) == q.num > 0

\* q < r
RatLess(q, r) == q.num * r.den < r.num * q.den

----------------------------------------------------------------------------
(* Configuration: the users of config.py *)

\* USERS, abstracted: the overview account, two users who own the whole
\* portfolio between them (0.6 and 0.4), and users with the shares and the
\* investments the guards of the dashboard are written for (no share, no
\* investment, a negative investment, no 'initial_investment' key)
USERS ==
    << [username |-> "user", password |-> "password",
        portfolio_percentage |-> Rat(1, 1), initial_investment |-> 10],
       [username |-> "kremer", password |-> "kremer1",
        portfolio_percentage |-> Rat(3, 5), initial_investment |-> 6],
       [username |-> "foehr", password |-> "foehr1",
        portfolio_percentage |-> Rat(2, 5), initial_investment |-> 0],
       [username |-> "annika", password |-> "anakin",
        portfolio_percentage |-> Rat(0, 1), initial_investment |-> 0 - 2],
       [username |-> "juergen", password |-> "juergen1",
        portfolio_percentage |-> Rat(1, 2)] >>

----------------------------------------------------------------------------
(* PriceFetcher: the valuation functions *)

\* mutant of GetPortfolioValue: the baseline price is used for every holding
RECURSIVE GetPortfolioValueBaseline(_)
GetPortfolioValueBaseline(s) ==
    IF s = <<>> THEN 0
    ELSE GetPortfolioValueBaseline(SubSeq(s, 1, Len(s) - 1))
         + s[Len(s)].quantity * s[Len(s)].price

\* get_portfolio_value: total_value after the loop over the first holdings
RECURSIVE GetPortfolioValue(_)
GetPortfolioValue(s) ==
    IF s = <<>> THEN 0
    ELSE GetPortfolioValue(SubSeq(s, 1, Len(s) - 1))
         + s[Len(s)].quantity * CurrentPrice(s[Len(s)])

\* get_stock_value
GetStockValue(stock) == stock.quantity * CurrentPrice(stock)

\* mutant of GetPriceChangePercentage: no early return for 'default' records and
\* the change is taken against the previous close
GetPriceChangePercentageDaily(stock) ==
    LET current_price == CurrentPrice(stock)
        original_price == Get(stock, "previous_close", stock.price)
    IN  IF original_price = 0 \/ original_price = None THEN Zero
        ELSE RatMul(Rat(current_price - original_price, original_price), 100)

\* get_price_change_percentage
GetPriceChangePercentage(stock) ==
    IF Get(stock, "price_source", NoneStr) = "default" THEN Zero
    ELSE LET current_price == CurrentPrice(stock)
             original_price == stock.price
         IN  IF original_price = 0 THEN Zero
             ELSE RatMul(Rat(current_price - original_price, original_price), 100)

\* mutant of GetDailyChangePercentage: the change is divided by the current price
GetDailyChangePercentageOfCurrent(stock) ==
    LET current_price == CurrentPrice(stock)
        previous_close == Get(stock, "previous_close", None)
    IN  IF previous_close = None \/ current_price = 0 THEN Zero
        ELSE RatMul(Rat(current_price - previous_close, current_price), 100)

\* get_daily_change_percentage
GetDailyChangePercentage(stock) ==
    LET current_price == CurrentPrice(stock)
        previous_close == Get(stock, "previous_close", None)
    IN  IF previous_close = None \/ previous_close = 0 THEN Zero
        ELSE RatMul(Rat(current_price - previous_close, previous_close), 100)

\* mutant of GetUserDailyChangeValue: a missing previous_close counts as 0
GetUserDailyChangeValueFromZero(stock, user_percentage) ==
    LET current_price == CurrentPrice(stock)
        previous_close == Get(stock, "previous_close", None)
    IN  IF previous_close = None
        THEN RatTimes(RatOfInt(current_price * stock.quantity), user_percentage)
        ELSE RatTimes(RatOfInt((current_price - previous_close) * stock.quantity),
                      user_percentage)

\* get_user_daily_change_value
GetUserDailyChangeValue(stock, user_percentage) ==
    LET current_price == CurrentPrice(stock)
        previous_close == Get(stock, "previous_close", None)
    IN  IF previous_close = None THEN Zero
        ELSE RatTimes(RatOfInt((current_price - previous_close) * stock.quantity),
                      user_percentage)

----------------------------------------------------------------------------
(* PortfolioDashboard: show_dashboard, show_all_users_overview,            *)
(* show_holdings_table                                                     *)

\* str.title() on the strings the dashboard capitalises
Title(s) ==
    CASE s = "user"    -> "User"
      [] s = "kremer"  -> "Kremer"
      [] s = "foehr"   -> "Foehr"
      [] s = "annika"  -> "Annika"
      [] s = "juergen" -> "Juergen"
      [] s = "default" -> "Default"
      [] s = "live"    -> "Live"

\* mutant of UserPortfolioValue: the share is applied to the user's investment
UserPortfolioValueOfInvestment(total_portfolio_value, u) ==
    RatTimes(RatOfInt(Get(u, "initial_investment", 0)), u.portfolio_percentage)

\* user_portfolio_value = total_portfolio_value * user['portfolio_percentage']
UserPortfolioValue(total_portfolio_value, u) ==
    RatTimes(RatOfInt(total_portfolio_value), u.portfolio_percentage)

\* mutant of TotalReturnPercentage: the guard only excludes a zero investment
TotalReturnPercentageNonZero(total_return_amount, initial_investment) ==
    IF initial_investment # 0
    THEN RatMul(RatDivide(total_return_amount, RatOfInt(initial_investment)), 100)
    ELSE Zero

\* (total_return_amount / initial_investment * 100) if initial_investment > 0 else 0
TotalReturnPercentage(total_return_amount, initial_investment) ==
    IF initial_investment > 0
    THEN RatMul(RatDivide(total_return_amount, RatOfInt(initial_investment)), 100)
    ELSE Zero

\* sum([get_user_daily_change_value(stock, percentage) for stock in stocks])
RECURSIVE TotalDailyChange(_, _)
TotalDailyChange(s, user_percentage) ==
    IF s = <<>> THEN Zero
    ELSE RatAdd(TotalDailyChange(SubSeq(s, 1, Len(s) - 1), user_percentage),
                GetUserDailyChangeValue(s[Len(s)], user_percentage))

\* mutant of DailyPercentage: the ratio is not scaled to a percentage
DailyPercentageAsFraction(total_daily_change, user_portfolio_value) ==
    IF RatPositive(user_portfolio_value)
    THEN RatDivide(total_daily_change, user_portfolio_value)
    ELSE Zero

\* (total_daily_change / user_portfolio_value * 100) if user_portfolio_value > 0 else 0
DailyPercentage(total_daily_change, user_portfolio_value) ==
    IF RatPositive(user_portfolio_value)
    THEN RatMul(RatDivide(total_daily_change, user_portfolio_value), 100)
    ELSE Zero

\* mutant of LiveCount: every record with a current price counts
LiveCountPriced(s) == Len(SelectSeq(s, LAMBDA e : Has(e, "current_price")))

\* len([s for s in stocks if s.get('price_source') == 'live'])
LiveCount(s) == Len(SelectSeq(s, LAMBDA e : Get(e, "price_source", NoneStr) = "live"))

\* the metrics show_dashboard computes before it draws them
DashboardMetrics(u, stocks_with_prices) ==
    LET total_portfolio_value == GetPortfolioValue(stocks_with_prices)
        user_portfolio_value == UserPortfolioValue(total_portfolio_value, u)
        initial_investment == Get(u, "initial_investment", 0)
        total_return_amount == RatSub(user_portfolio_value, RatOfInt(initial_investment))
        total_daily_change == TotalDailyChange(stocks_with_prices, u.portfolio_percentage)
    IN  [stage |-> "dashboard",
         total_portfolio_value |-> total_portfolio_value,
         user_portfolio_value |-> user_portfolio_value,
         initial_investment |-> initial_investment,
         total_return_amount |-> total_return_amount,
         total_return_percentage |->
             TotalReturnPercentage(total_return_amount, initial_investment),
         total_daily_change |-> total_daily_change,
         daily_percentage |->
             DailyPercentage(total_daily_change, user_portfolio_value),
         live_count |-> LiveCount(stocks_with_prices),
         live_of |-> Len(stocks_with_prices) - 1]

\* one row of user_data in show_all_users_overview
OverviewRow(user_info, total_portfolio_value) ==
    LET user_value == UserPortfolioValue(total_portfolio_value, user_info)
        initial_investment == Get(user_info, "initial_investment", 0)
        total_return == RatSub(user_value, RatOfInt(initial_investment))
    IN  [User |-> Title(user_info.username),
         PortfolioValue |-> user_value,
         InitialInvestment |-> initial_investment,
         TotalReturn |-> total_return,
         ReturnPct |-> TotalReturnPercentage(total_return, initial_investment),
         SharePct |-> RatMul(user_info.portfolio_percentage, 100)]

\* list.sort(key=Portfolio Value, reverse=True): stable, largest value first
RECURSIVE SortByValueDesc(_)
SortByValueDesc(rows) ==
    IF rows = <<>> THEN <<>>
    ELSE LET sorted == SortByValueDesc(SubSeq(rows, 1, Len(rows) - 1))
             row == rows[Len(rows)]
             \* the rows that stay in front of row: those not smaller than it
             n == Cardinality({ k \in DOMAIN sorted :
                                  ~RatLess(sorted[k].PortfolioValue, row.PortfolioValue) })
         IN  SubSeq(sorted, 1, n) \o <<row>> \o SubSeq(sorted, n + 1, Len(sorted))

\* user_data of show_all_users_overview: a row per user but 'user', sorted
RECURSIVE OverviewRows(_, _)
OverviewRows(users, total_portfolio_value) ==
    IF users = <<>> THEN <<>>
    ELSE LET front == OverviewRows(SubSeq(users, 1, Len(users) - 1), total_portfolio_value)
             user_info == users[Len(users)]
         IN  IF user_info.username # "user"
             THEN Append(front, OverviewRow(user_info, total_portfolio_value))
             ELSE front

UserData(stocks_with_prices) ==
    SortByValueDesc(OverviewRows(USERS, GetPortfolioValue(stocks_with_prices)))

\* one row of table_data in show_holdings_table, with the two percentages
\* as the price fetcher returns them
TableRow(stock, u) ==
    LET current_price == CurrentPrice(stock)
        your_quantity == RatMul(u.portfolio_percentage, stock.quantity)
    IN  [symbol |-> stock.symbol,
         name |-> stock.name,
         your_quantity |-> your_quantity,
         current_price |-> current_price,
         your_value |-> RatMul(your_quantity, current_price),
         price_change |-> GetPriceChangePercentage(stock),
         daily_change_pct |-> GetDailyChangePercentage(stock),
         price_source |-> Title(Get(stock, "price_source", "default"))]

\* table_data after the loop over the holdings
TableData(s, u) == [k \in DOMAIN s |-> TableRow(s[k], u)]

\* the holdings the valuation is applied to: two of the configured ones and
\* a holding with a baseline price of 0
ValHoldings ==
    { h \in Holdings : h.symbol \in {"AGIF", "CASH"} }
    \cup
    { [symbol |-> "DAX", quantity |-> 2, price |-> 0, name |-> "Index Fund", industry |-> "DAX"] }

ValStockLists ==
    { s \in UNION { [1..n -> ValHoldings] : n \in 0..MaxStocks } :
        \A a, b \in DOMAIN s : a # b => s[a].symbol # s[b].symbol }

\* the records fetch_stock_prices can return for one holding
ResolvedOf(stock) ==
    IF IsCash(stock) THEN { CashStock(stock) }
    ELSE { ResolveStock(stock, res).entry : res \in Results(MaxRecent, CloseVals, OpenVals) }

\* the lists fetch_stock_prices can return for a list of holdings
RECURSIVE ResolvedLists(_)
ResolvedLists(s) ==
    IF s = <<>> THEN { <<>> }
    ELSE { <<e>> \o r : e \in ResolvedOf(Head(s)), r \in ResolvedLists(Tail(s)) }

\* main() calls show_dashboard(user, stocks_with_prices, failed_symbols) with
\* a result of fetch_stock_prices
ValInit ==
    /\ call = "show_dashboard"
    /\ stocks \in ValStockLists
    /\ period = "-"
    /\ pc = "dashboard"
    /\ i = Len(stocks) + 1
    /\ updated_stocks \in ResolvedLists(stocks)
    /\ failed_symbols = Symbols(SelectSeq(updated_stocks, IsDefault))
    /\ lookups = <<>>
    /\ user \in Range(USERS)
    /\ shown = NothingShown
    /\ cache = EmptyCache
    /\ now = 0
    /\ authenticated = FALSE /\ current_user = NoUser
    /\ user_messages = EmptyDict /\ user_data = EmptyDict /\ threads = <<>>

\* show_dashboard up to the metrics row
ShowMetrics ==
    /\ call = "show_dashboard" /\ pc = "dashboard"
    /\ shown' = DashboardMetrics(user, updated_stocks)
    /\ pc' = IF user.username = "user" THEN "overview" ELSE "table"
    /\ UNCHANGED <<call, stocks, period, i, updated_stocks, failed_symbols, lookups, user>>
    /\ UNCHANGED appvars
    /\ UNCHANGED <<authvars, msgvars>>

\* show_all_users_overview, for the 'user' account
ShowAllUsersOverview ==
    /\ call = "show_dashboard" /\ pc = "overview"
    /\ shown' = Put(Put(shown, "user_data", UserData(updated_stocks)), "stage", "overview")
    /\ pc' = "table"
    /\ UNCHANGED <<call, stocks, period, i, updated_stocks, failed_symbols, lookups, user>>
    /\ UNCHANGED appvars
    /\ UNCHANGED <<authvars, msgvars>>

\* show_holdings_table
ShowHoldingsTable ==
    /\ call = "show_dashboard" /\ pc = "table"
    /\ shown' = Put(Put(shown, "table_data", TableData(updated_stocks, user)), "stage", "table")
    /\ pc' = "returned"
    /\ UNCHANGED <<call, stocks, period, i, updated_stocks, failed_symbols, lookups, user>>
    /\ UNCHANGED appvars
    /\ UNCHANGED <<authvars, msgvars>>

ValNext == ShowMetrics \/ ShowAllUsersOverview \/ ShowHoldingsTable

SpecVal == ValInit /\ [][ValNext]_vars

----------------------------------------------------------------------------
(* Properties of the valuation *)

Rendering == call = "show_dashboard"

\* the sum of term[k] over the indices k in K
RECURSIVE SumOver(_, _)
SumOver(term, K) ==
    IF K = {} THEN 0
    ELSE LET k == CHOOSE x \in K : TRUE IN term[k] + SumOver(term, K \ {k})

\* quantity * current price of each record, the baseline price standing in
\* for an absent current_price
Values(s) ==
    [k \in DOMAIN s |->
        s[k].quantity * (IF Has(s[k], "current_price") THEN s[k].current_price ELSE s[k].price)]

\* (current price - previous close) * quantity of each record, 0 where the
\* previous close is None or absent
DailyMoves(s) ==
    [k \in DOMAIN s |->
        IF Has(s[k], "previous_close") /\ s[k].previous_close # None
        THEN (CurrentPrice(s[k]) - s[k].previous_close) * s[k].quantity
        ELSE 0]

\* the price changes a resolved holding's current price is moved by
Deltas == {0 - 1, 1, 2}

\* s with the current price of record k moved by d
WithPriceMoved(s, k, d) ==
    [s EXCEPT ![k] = Put(s[k], "current_price", CurrentPrice(s[k]) + d)]

\* the row of user_data of the configured user u
RowOf(rows, u) == CHOOSE r \in Range(rows) : r.User = Title(u.username)

\* C11: get_portfolio_value is the sum of quantity * current_price over all
\* records, cash included, with the baseline price for an absent
\* current_price; moving one record's current price by d moves it by that
\* record's quantity * d.
C11_TotalIsSum ==
    (Rendering /\ shown.stage # "-") =>
        /\ shown.total_portfolio_value = SumOver(Values(updated_stocks), DOMAIN updated_stocks)
        /\ \A k \in DOMAIN updated_stocks : \A d \in Deltas :
              GetPortfolioValue(WithPriceMoved(updated_stocks, k, d))
                  = shown.total_portfolio_value + updated_stocks[k].quantity * d

\* C11 witness: the total 17 of a live AGIF at 2 (5 units) and the cash
\* record (7 units at the baseline 1, no current_price).
C11_Witness ==
    /\ Rendering /\ shown.stage # "-" /\ Len(updated_stocks) = 2
    /\ updated_stocks[1].symbol = "AGIF" /\ IsLive(updated_stocks[1])
    /\ updated_stocks[1].current_price = 2
    /\ updated_stocks[2].symbol = "CASH" /\ ~Has(updated_stocks[2], "current_price")
    /\ shown.total_portfolio_value = 17

\* C12: the user's portfolio value is the total value times the user's
\* share, in the metrics and in every row of the overview; the values of
\* the two users whose shares sum to 1 sum to the total.
C12_UserValueIsShare ==
    (Rendering /\ shown.stage # "-") =>
        LET total == SumOver(Values(updated_stocks), DOMAIN updated_stocks) IN
        /\ RatIs(shown.user_portfolio_value,
                 total * user.portfolio_percentage.num, user.portfolio_percentage.den)
        /\ Has(shown, "user_data") =>
              /\ \A k \in DOMAIN USERS :
                    USERS[k].username # "user" =>
                        RatIs(RowOf(shown.user_data, USERS[k]).PortfolioValue,
                              total * USERS[k].portfolio_percentage.num,
                              USERS[k].portfolio_percentage.den)
              /\ RatAdd(RowOf(shown.user_data, USERS[2]).PortfolioValue,
                        RowOf(shown.user_data, USERS[3]).PortfolioValue) = RatOfInt(total)

\* C12 witness: over a total of 10 the overview shows 6 for the share 0.6
\* and 4 for the share 0.4.
C12_Witness ==
    /\ Rendering /\ Has(shown, "user_data") /\ shown.total_portfolio_value = 10
    /\ RowOf(shown.user_data, USERS[2]).PortfolioValue = RatOfInt(6)
    /\ RowOf(shown.user_data, USERS[3]).PortfolioValue = RatOfInt(4)

\* the return of a user value over an investment, as the claim states it
ReturnAsClaimed(total_return, return_percentage, user_value, u) ==
    LET inv == IF Has(u, "initial_investment") THEN u.initial_investment ELSE 0 IN
    /\ total_return = RatSub(user_value, RatOfInt(inv))
    /\ inv > 0 => RatIs(return_percentage, total_return.num * 100, total_return.den * inv)
    /\ inv <= 0 => return_percentage = Zero

\* C13: the total return is the user value minus the initial investment,
\* and its percentage is return / investment * 100 for a positive investment
\* and 0 for a zero, negative or missing one, in show_dashboard and in every
\* row of show_all_users_overview.
C13_ReturnGuarded ==
    (Rendering /\ shown.stage # "-") =>
        /\ pc # "raised"
        /\ ReturnAsClaimed(shown.total_return_amount, shown.total_return_percentage,
                           shown.user_portfolio_value, user)
        /\ Has(shown, "user_data") =>
              \A k \in DOMAIN USERS :
                  USERS[k].username # "user" =>
                      LET row == RowOf(shown.user_data, USERS[k]) IN
                      ReturnAsClaimed(row.TotalReturn, row.ReturnPct,
                                      row.PortfolioValue, USERS[k])

\* C13 witness: an overview over a total of 10 with the row of a positive
\* investment (6 -> 6: 0 %), and rows of a zero, a negative and a missing
\* investment whose return is not 0 and whose percentage is 0.
C13_Witness ==
    /\ Rendering /\ Has(shown, "user_data") /\ shown.total_portfolio_value = 10
    /\ shown.total_return_percentage = Zero
    /\ RowOf(shown.user_data, USERS[3]).TotalReturn = RatOfInt(4)
    /\ RowOf(shown.user_data, USERS[3]).ReturnPct = Zero
    /\ RowOf(shown.user_data, USERS[4]).TotalReturn = RatOfInt(2)
    /\ RowOf(shown.user_data, USERS[4]).ReturnPct = Zero
    /\ RowOf(shown.user_data, USERS[5]).TotalReturn = RatOfInt(5)
    /\ RowOf(shown.user_data, USERS[5]).ReturnPct = Zero

\* C14: the user's total daily change is the sum over all records of
\* (current_price - previous_close) * quantity * share, a record with a None
\* or absent previous_close counting 0.
C14_DailyChangeIsSum ==
    (Rendering /\ shown.stage # "-") =>
        RatIs(shown.total_daily_change,
              SumOver(DailyMoves(updated_stocks), DOMAIN updated_stocks)
                  * user.portfolio_percentage.num,
              user.portfolio_percentage.den)

\* C14 witness: AGIF at 2 after 0 (5 units) and a live record without a
\* previous close, for a share of one half: 5.
C14_Witness ==
    /\ Rendering /\ shown.stage # "-" /\ Len(updated_stocks) = 2
    /\ user.portfolio_percentage = Rat(1, 2)
    /\ updated_stocks[1].symbol = "AGIF" /\ IsLive(updated_stocks[1])
    /\ updated_stocks[1].current_price = 2 /\ updated_stocks[1].previous_close = 0
    /\ IsLive(updated_stocks[2]) /\ updated_stocks[2].previous_close = None
    /\ updated_stocks[2].current_price # 0
    /\ shown.total_daily_change = RatOfInt(5)

\* C15 as stated: the daily change percentage is total daily change / user
\* portfolio value * 100, and 0 when the user portfolio value is 0.
C15_AsStated ==
    (Rendering /\ shown.stage # "-") =>
        LET v == shown.user_portfolio_value
            c == shown.total_daily_change
        IN  /\ v.num # 0 => RatIs(shown.daily_percentage, c.num * v.den * 100, c.den * v.num)
            /\ v.num = 0 => shown.daily_percentage = Zero

\* C15 amended: the daily change percentage is total daily change / user
\* portfolio value * 100 when the user portfolio value is positive, and 0,
\* without raising, when it is 0 or negative.
C15_DailyPercentageGuarded ==
    (Rendering /\ shown.stage # "-") =>
        LET v == shown.user_portfolio_value
            c == shown.total_daily_change
        IN  /\ pc # "raised"
            /\ v.num > 0 => RatIs(shown.daily_percentage, c.num * v.den * 100, c.den * v.num)
            /\ v.num <= 0 => shown.daily_percentage = Zero

\* C15 witness: a user value of 5 with a daily change of 5: 100 %.
C15_Witness ==
    /\ Rendering /\ shown.stage # "-"
    /\ shown.user_portfolio_value = RatOfInt(5)
    /\ shown.total_daily_change = RatOfInt(5)
    /\ shown.daily_percentage = RatOfInt(100)

\* C15 second case, reached as well: a user value of 0 with a percentage of 0.
C15_ZeroValueReached ==
    /\ Rendering /\ shown.stage # "-"
    /\ shown.total_portfolio_value # 0
    /\ shown.user_portfolio_value = Zero

\* C16: get_price_change_percentage is 0 for a 'default' record; otherwise
\* it is (current_price - baseline) / baseline * 100, and 0 for a baseline
\* of 0.
C16_PriceChange ==
    (Rendering /\ Has(shown, "table_data")) =>
        \A k \in DOMAIN updated_stocks :
            LET e == updated_stocks[k]
                cur == IF Has(e, "current_price") THEN e.current_price ELSE e.price
                change == shown.table_data[k].price_change
            IN  /\ IsDefault(e) => change = Zero
                /\ (~IsDefault(e) /\ e.price = 0) => change = Zero
                /\ (~IsDefault(e) /\ e.price # 0) =>
                       RatIs(change, (cur - e.price) * 100, e.price)

\* C16 witness: a live record at 2 over a baseline of 0 (change 0), and a
\* live record at 2 over a baseline of 4 (change -50).
C16_Witness ==
    /\ Rendering /\ Has(shown, "table_data") /\ Len(updated_stocks) = 2
    /\ updated_stocks[1].price = 0 /\ IsLive(updated_stocks[1])
    /\ updated_stocks[1].current_price = 2
    /\ shown.table_data[1].price_change = Zero
    /\ updated_stocks[2].price = 4 /\ IsLive(updated_stocks[2])
    /\ shown.table_data[2].price_change = RatOfInt(0 - 50)

\* C16 second case, reached as well: a 'default' record, change 0.
C16_DefaultReached ==
    /\ Rendering /\ Has(shown, "table_data") /\ Len(updated_stocks) = 1
    /\ IsDefault(updated_stocks[1])

\* C17: get_daily_change_percentage is 0 when previous_close is None, absent
\* or 0, and (current_price - previous_close) / previous_close * 100
\* otherwise; it never raises.
C17_DailyChangeGuarded ==
    (Rendering /\ Has(shown, "table_data")) =>
        /\ pc # "raised"
        /\ \A k \in DOMAIN updated_stocks :
              LET e == updated_stocks[k]
                  cur == IF Has(e, "current_price") THEN e.current_price ELSE e.price
                  change == shown.table_data[k].daily_change_pct
              IN  IF ~Has(e, "previous_close") THEN change = Zero
                  ELSE IF e.previous_close = None \/ e.previous_close = 0 THEN change = Zero
                  ELSE RatIs(change, (cur - e.previous_close) * 100, e.previous_close)

\* C17 witness: a live record at 2 after a previous close of 0 (change 0)
\* next to the cash record, which has no previous_close.
C17_Witness ==
    /\ Rendering /\ Has(shown, "table_data") /\ Len(updated_stocks) = 2
    /\ IsLive(updated_stocks[1])
    /\ updated_stocks[1].current_price = 2 /\ updated_stocks[1].previous_close = 0
    /\ ~Has(updated_stocks[2], "previous_close")
    /\ shown.table_data[1].daily_change_pct = Zero

\* C17 other cases, reached as well: a previous close of None, and a
\* negative previous close (2 after -1: -300 %).
C17_OtherCasesReached ==
    /\ Rendering /\ Has(shown, "table_data") /\ Len(updated_stocks) = 2
    /\ IsLive(updated_stocks[1]) /\ updated_stocks[1].previous_close = None
    /\ IsLive(updated_stocks[2])
    /\ updated_stocks[2].current_price = 2 /\ updated_stocks[2].previous_close = 0 - 1
    /\ shown.table_data[2].daily_change_pct = RatOfInt(0 - 300)

(***************************************************************************)
(* Successive resolution cycles.  The callers hand the same list, STOCKS   *)
(* of config.py, to every call of fetch_stock_prices (app.py) and of       *)
(* get_historical_data (portfolio_dashboard.py); each call starts from     *)
(* empty result lists.                                                     *)
(***************************************************************************)

\* the periods of the later calls: the daily one and one longer one
CyclePeriods == {"1d", "1w"}

\* the next call, on the list the previous call was given: a price cycle or
\* a historical cycle for a period of the selector
NewCycle ==
    /\ call \in {"fetch_stock_prices", "get_historical_data"} /\ pc = "returned"
    /\ user = NoUser
    /\ \E c \in {"fetch_stock_prices", "get_historical_data"} :
         /\ call' = c
         /\ period' \in IF c = "fetch_stock_prices" THEN {"-"} ELSE CyclePeriods
    /\ pc' = "loop"
    /\ i' = 1
    /\ updated_stocks' = <<>>
    /\ failed_symbols' = <<>>
    /\ lookups' = <<>>
    /\ UNCHANGED stocks
    /\ UNCHANGED <<viewvars, appvars>>
    /\ UNCHANGED <<authvars, msgvars>>

CyclesInit == FetchInit

CyclesNext ==
    \/ FetchCash \/ FetchLookup \/ FetchReturn
    \/ HistCash \/ HistLookup \/ HistReturn
    \/ NewCycle

SpecCycles == CyclesInit /\ [][CyclesNext]_vars

(***************************************************************************)
(* Properties of the cycles.                                               *)
(***************************************************************************)

\* the keys of a holding of the configuration
ConfigKeys == {"name", "quantity", "price", "symbol", "industry"}

\* a step that starts a call
CycleStarts == pc = "returned" /\ pc' = "loop"

\* C18: no step of a price cycle or of a historical cycle changes the
\* input list or any of its records, which keep the configured fields and
\* gain none; every call starts from empty result lists and the first
\* holding, so that nothing of an earlier cycle is left in it.
C18_InputsUntouched ==
    [][ /\ stocks' = stocks
        /\ \A k \in DOMAIN stocks' : DOMAIN stocks'[k] = ConfigKeys
        /\ CycleStarts =>
              /\ updated_stocks' = <<>> /\ failed_symbols' = <<>>
              /\ lookups' = <<>> /\ i' = 1
      ]_vars

\* C18 witness: a later historical cycle has returned the records of two
\* holdings, the first one with a live change, and the input records have
\* no result field.
C18_Witness ==
    /\ call = "get_historical_data" /\ pc = "returned"
    /\ Len(stocks) = 2 /\ Len(updated_stocks) = 2
    /\ Has(updated_stocks[1], "historical_change")
    /\ updated_stocks[1].price_source = "live"
    /\ \A k \in DOMAIN stocks :
          /\ ~Has(stocks[k], "historical_change")
          /\ ~Has(stocks[k], "current_price")
          /\ ~Has(stocks[k], "price_source")

\* the positions of the holdings that are not cash among the first n
NonCashUpTo(n) == {k \in 1..n : stocks[k].symbol # "CASH"}

\* the positions looked up so far
LookedUp == {lookups[j].index : j \in DOMAIN lookups}

\* what C19 says of every state of a price cycle
C19_InOrderOnce ==
    Fetching =>
        /\ i \in 1..(Len(stocks) + 1)
        /\ pc \in {"loop", "returned"}
        /\ LookedUp = NonCashUpTo(i - 1)
        /\ \A j \in DOMAIN lookups : lookups[j].symbol = stocks[lookups[j].index].symbol
        /\ \A j, k \in DOMAIN lookups : j < k => lookups[j].index < lookups[k].index
        /\ Len(updated_stocks) = i - 1
        /\ pc = "loop" => ENABLED Next
        /\ pc = "returned" => i = Len(stocks) + 1

\* C19: the holdings are processed in list order, one lookup for each
\* holding that is not cash and none for cash, no lookup is made a second
\* time, whatever its outcome, and the cycle returns after the last holding:
\* while it has not returned a step is possible, and every step either moves
\* on to the next holding or returns, so that a list of n holdings is done
\* in n + 1 steps.
C19_SequentialAndTerminates ==
    /\ []C19_InOrderOnce
    /\ [][ Fetching =>
              \/ pc = "loop" /\ pc' = "loop" /\ i' = i + 1
                    /\ Len(lookups') = Len(lookups) + (IF IsCash(stocks[i]) THEN 0 ELSE 1)
              \/ pc = "loop" /\ pc' = "returned" /\ i' = i /\ lookups' = lookups
          ]_vars

\* C19 witness: a returned cycle of two holdings whose first lookup raised
\* and whose second found nothing: two lookups, in order.
C19_Witness ==
    /\ Fetching /\ pc = "returned" /\ Len(stocks) = 2
    /\ Len(lookups) = 2
    /\ lookups[1].index = 1 /\ lookups[1].result.kind = "raise"
    /\ lookups[2].index = 2 /\ lookups[2].result.kind # "raise"
    /\ failed_symbols = <<stocks[1].symbol, stocks[2].symbol>>

(***************************************************************************)
(* The page: main() of app.py for an authenticated user, from the refresh  *)
(* button to the cached call of fetch_stock_prices.  One run of the script *)
(* at a time; the clock moves between runs.                                *)
(***************************************************************************)

\* st.cache_data(ttl=300)
TTL == 300

\* the clock stops here
MaxNow == 300

\* the time that passes between two runs
Steps == {100, 200}

\* get_language(username)
GetLanguage(username) == IF username \in {"juergen", "kremer"} THEN "de" ELSE "en"

\* the list app.py hands to fetch_stock_prices
STOCKS ==
    << CHOOSE h \in Holdings : h.symbol = "AGIF",
       CHOOSE h \in Holdings : h.symbol = "CASH" >>

\* the users who open the page: one of each language
PageUsers == {u \in Range(USERS) : u.username \in {"user", "kremer"}}

\* mutant of CacheFresh: an entry counts once the ttl has passed
CacheFreshAfterTTL(entry, t) == entry # NoEntry /\ t - entry.at >= TTL

\* the entry can still be served at time t
CacheFresh(entry, t) == entry # NoEntry /\ t - entry.at < TTL

AppInit ==
    /\ call = "main"
    /\ stocks = STOCKS
    /\ period = "-"
    /\ pc = "idle"
    /\ i = 1
    /\ updated_stocks = <<>>
    /\ failed_symbols = <<>>
    /\ lookups = <<>>
    /\ user = NoUser
    /\ shown = NothingShown
    /\ cache = EmptyCache
    /\ now = 0
    /\ authenticated = FALSE /\ current_user = NoUser
    /\ user_messages = EmptyDict /\ user_data = EmptyDict /\ threads = <<>>

\* time passes between two runs
Tick ==
    /\ call = "main" /\ pc = "idle"
    /\ \E d \in Steps : now + d <= MaxNow /\ now' = now + d
    /\ UNCHANGED <<call, stocks, period, pc, i, updated_stocks, failed_symbols, lookups>>
    /\ UNCHANGED <<viewvars, cache>>
    /\ UNCHANGED <<authvars, msgvars>>

\* fetch_prices(lang) of a run of user u: the cached value if there is a
\* fresh one, a call of fetch_stock_prices(STOCKS, lang) otherwise
FetchPrices(u) ==
    LET lang == GetLanguage(u.username) IN
    /\ user' = u
    /\ lookups' = <<>>
    /\ IF CacheFresh(cache[lang], now)
       THEN /\ updated_stocks' = cache[lang].stocks_with_prices
            /\ failed_symbols' = cache[lang].failed_symbols
            /\ pc' = "fetched"
            /\ UNCHANGED <<call, i>>
       ELSE /\ call' = "fetch_stock_prices"
            /\ pc' = "loop"
            /\ i' = 1
            /\ updated_stocks' = <<>>
            /\ failed_symbols' = <<>>
    /\ UNCHANGED <<stocks, period, shown, now>>

\* a run of the script, the refresh button not pressed
Run ==
    /\ call = "main" /\ pc = "idle"
    /\ \E u \in PageUsers : FetchPrices(u)
    /\ UNCHANGED cache
    /\ UNCHANGED <<authvars, msgvars>>

\* a run with the refresh button pressed: st.cache_data.clear(), st.rerun()
Refresh ==
    /\ call = "main" /\ pc = "idle"
    /\ \E u \in PageUsers : user' = u
    /\ cache' = EmptyCache
    /\ pc' = "rerun"
    /\ UNCHANGED <<call, stocks, period, i, updated_stocks, failed_symbols, lookups, shown, now>>
    /\ UNCHANGED <<authvars, msgvars>>

\* the run that st.rerun() starts, for the same user
Rerun ==
    /\ call = "main" /\ pc = "rerun"
    /\ FetchPrices(user)
    /\ UNCHANGED cache
    /\ UNCHANGED <<authvars, msgvars>>

\* fetch_stock_prices has returned inside fetch_prices: the value is cached
CacheStore ==
    /\ call = "fetch_stock_prices" /\ pc = "returned" /\ user # NoUser
    /\ cache' = [cache EXCEPT ![GetLanguage(user.username)] =
                    [at |-> now,
                     stocks_with_prices |-> updated_stocks,
                     failed_symbols |-> failed_symbols]]
    /\ call' = "main"
    /\ pc' = "fetched"
    /\ UNCHANGED <<stocks, period, i, updated_stocks, failed_symbols, lookups, viewvars, now>>
    /\ UNCHANGED <<authvars, msgvars>>

\* the rest of the run: the page is drawn from stocks_with_prices and
\* failed_symbols, and the run ends
RunEnds ==
    /\ call = "main" /\ pc = "fetched"
    /\ pc' = "idle"
    /\ user' = NoUser
    /\ updated_stocks' = <<>>
    /\ failed_symbols' = <<>>
    /\ lookups' = <<>>
    /\ UNCHANGED <<call, stocks, period, i, shown, cache, now>>
    /\ UNCHANGED <<authvars, msgvars>>

AppNext ==
    \/ Tick \/ Run \/ Refresh \/ Rerun
    \/ FetchCash \/ FetchLookup \/ FetchReturn
    \/ CacheStore \/ RunEnds

SpecApp == AppInit /\ [][AppNext]_vars

(***************************************************************************)
(* Properties of the page.                                                 *)
(***************************************************************************)

\* a result for language l was cached less than 300 seconds ago
CachedRecently(l) == cache[l] # NoEntry /\ now - cache[l].at < 300

\* a step in which a run reaches fetch_prices
ReachesFetchPrices == pc \in {"idle", "rerun"} /\ pc' \in {"loop", "fetched"}

\* the run is the one the refresh button started
RefreshPressed == pc = "rerun"

C20_ExpiryReached ==
    /\ call = "fetch_stock_prices" /\ pc = "loop" /\ user # NoUser
    /\ cache[GetLanguage(user.username)] # NoEntry
    /\ now - cache[GetLanguage(user.username)].at = 300

\* ... and the run the refresh button starts, the cache emptied.
C20_RefreshReached ==
    /\ call = "main" /\ pc = "rerun" /\ user # NoUser
    /\ cache = EmptyCache /\ now = 100

(***************************************************************************)
(* Properties of the coverage figures and of the holdings without live     *)
(* data.                                                                   *)
(***************************************************************************)

\* len([s for s in stocks if s['symbol'] != 'CASH'])
TotalNonCash(s) == Len(SelectSeq(s, LAMBDA e : e.symbol # "CASH"))

\* the list holds the cash position once, as STOCKS of config.py does
HoldsCashOnce(s) == Len(s) - TotalNonCash(s) = 1

\* C28: when a price cycle has returned, the records tagged 'live' and the
\* failed symbols together are as many as the holdings that are not cash;
\* the live count is at most the number of non-cash records the holdings
\* table sets it against, and, for a list with the cash position as the
\* configuration has it, at most the len - 1 show_dashboard sets it against.
C28_LivePlusFailedIsNonCash ==
    (Fetching /\ pc = "returned") =>
        /\ LiveCount(updated_stocks) + Len(failed_symbols) = TotalNonCash(stocks)
        /\ LiveCount(updated_stocks) <= TotalNonCash(updated_stocks)
        /\ HoldsCashOnce(stocks) =>
              /\ Len(updated_stocks) - 1 = TotalNonCash(updated_stocks)
              /\ LiveCount(updated_stocks) <= Len(updated_stocks) - 1

\* C28 witness: a returned cycle over a failed holding and the cash
\* position: no live record, one failed symbol, one non-cash holding.
C28_Witness ==
    /\ Fetching /\ pc = "returned" /\ Len(stocks) = 2
    /\ HoldsCashOnce(stocks)
    /\ LiveCount(updated_stocks) = 0
    /\ Len(failed_symbols) = 1

\* C28, reached as well: two live records and no failed symbol.
C28_AllLiveReached ==
    /\ Fetching /\ pc = "returned"
    /\ LiveCount(updated_stocks) = 2 /\ failed_symbols = <<>>

\* the record has no live data: tagged 'default', or the cash position
NoLiveData(e) == IsDefault(e) \/ e.symbol = "CASH"

\* C29: a fallback record and the cash record add exactly 0 to the user's
\* daily change and have a daily change percentage of exactly 0; a dashboard
\* drawn from a cycle all of whose lookups failed shows a total daily change
\* of 0 and a daily percentage of 0.
C29_NoLiveDataNoDailyMove ==
    (Rendering /\ Has(shown, "total_daily_change")) =>
        /\ \A k \in DOMAIN updated_stocks :
              NoLiveData(updated_stocks[k]) =>
                 /\ GetUserDailyChangeValue(updated_stocks[k], user.portfolio_percentage) = Zero
                 /\ GetDailyChangePercentage(updated_stocks[k]) = Zero
        /\ (\A k \in DOMAIN updated_stocks : NoLiveData(updated_stocks[k])) =>
              /\ shown.total_daily_change = Zero
              /\ shown.daily_percentage = Zero

\* C29 witness: the dashboard of a user with a share of 3/5 over a failed
\* holding of baseline 4 and the cash position: both daily figures are 0.
C29_Witness ==
    /\ Rendering /\ Has(shown, "total_daily_change")
    /\ Len(updated_stocks) = 2
    /\ IsDefault(updated_stocks[1]) /\ updated_stocks[1].price = 4
    /\ updated_stocks[2].symbol = "CASH"
    /\ failed_symbols = <<updated_stocks[1].symbol>>
    /\ user.username = "kremer"
    /\ shown.total_daily_change = Zero /\ shown.daily_percentage = Zero

(***************************************************************************)
(* The session: AuthSystem of auth.py and the gate of main() in app.py.    *)
(* One browser session; the message display of main() is modelled with    *)
(* the message system below.                                               *)
(***************************************************************************)

\* st.session_state after AuthSystem.__init__ on a new session
NewSession == [authenticated |-> FALSE, current_user |-> NoUser]

\* mutant of Authenticate: the password is not compared
RECURSIVE AuthenticateByUsername(_, _, _, _)
AuthenticateByUsername(k, username, password, session) ==
    IF k > Len(USERS) THEN [result |-> FALSE, session |-> session]
    ELSE IF USERS[k].username = username
         THEN [result |-> TRUE,
               session |-> [authenticated |-> TRUE, current_user |-> USERS[k]]]
         ELSE AuthenticateByUsername(k + 1, username, password, session)

\* authenticate(username, password), its loop on USERS from position k on:
\* the value returned and st.session_state afterwards
RECURSIVE Authenticate(_, _, _, _)
Authenticate(k, username, password, session) ==
    IF k > Len(USERS) THEN [result |-> FALSE, session |-> session]
    ELSE IF USERS[k].username = username /\ USERS[k].password = password
         THEN [result |-> TRUE,
               session |-> [authenticated |-> TRUE, current_user |-> USERS[k]]]
         ELSE Authenticate(k + 1, username, password, session)

\* what is typed into the login form: nothing, the names of configured users
\* and one of nobody
LoginNames == {"", "user", "kremer", "foehr", "juergen", "guest"}

\* nothing, passwords of configured users and one of nobody
LoginPasswords == {"", "password", "kremer1", "foehr1", "juergen1", "letmein"}

\* the login form as show_login_form draws it
LoginForm == [stage |-> "login_form"]

\* mutant of MainPage: the dashboard is drawn without the check of the session
MainPageUngated(session, stocks_with_prices) ==
    DashboardMetrics(USERS[1], stocks_with_prices)

\* main(): the login form for a session that is not authenticated, the
\* dashboard of the current user otherwise (an empty page if there is none)
MainPage(session, stocks_with_prices) ==
    IF ~session.authenticated THEN LoginForm
    ELSE IF session.current_user = NoUser THEN NothingShown
    ELSE DashboardMetrics(session.current_user, stocks_with_prices)

\* a new session opens the page
SessionInit ==
    /\ call = "session"
    /\ stocks = STOCKS
    /\ period = "-"
    /\ pc = "idle"
    /\ i = 1
    /\ updated_stocks = <<>>
    /\ failed_symbols = <<>>
    /\ lookups = <<>>
    /\ user = NoUser
    /\ shown = LoginForm
    /\ cache = EmptyCache
    /\ now = 0
    /\ authenticated = NewSession.authenticated
    /\ current_user = NewSession.current_user
    /\ user_messages = EmptyDict /\ user_data = EmptyDict /\ threads = <<>>

\* the login form is submitted: a warning if a field is empty, authenticate
\* otherwise, then the success message and st.rerun(), or the error message
LoginSubmit ==
    /\ call = "session" /\ pc = "idle" /\ shown.stage = "login_form"
    /\ \E username \in LoginNames, password \in LoginPasswords :
         LET session == [authenticated |-> authenticated, current_user |-> current_user]
             called == username # "" /\ password # ""
             r == IF called THEN Authenticate(1, username, password, session)
                  ELSE [result |-> FALSE, session |-> session]
         IN  /\ authenticated' = r.session.authenticated
             /\ current_user' = r.session.current_user
             /\ shown' = [stage |-> "login_form", username |-> username,
                          password |-> password,
                          result |-> IF ~called THEN "-"
                                     ELSE IF r.result THEN "True" ELSE "False"]
             /\ pc' = IF r.result THEN "rerun" ELSE "idle"
    /\ UNCHANGED <<call, stocks, period, i, updated_stocks, failed_symbols, lookups, user>>
    /\ UNCHANGED <<appvars, msgvars>>

\* the logout button of the sidebar: logout(), which ends in st.rerun()
Logout ==
    /\ call = "session" /\ pc = "idle" /\ shown.stage = "dashboard"
    /\ authenticated' = FALSE
    /\ current_user' = NoUser
    /\ shown' = NothingShown
    /\ pc' = "rerun"
    /\ UNCHANGED <<call, stocks, period, i, updated_stocks, failed_symbols, lookups, user>>
    /\ UNCHANGED <<appvars, msgvars>>

\* a run of main(), after st.rerun() or on any other interaction, with the
\* result of fetch_prices it gets
SessionRun ==
    /\ call = "session" /\ pc \in {"idle", "rerun"}
    /\ LET session == [authenticated |-> authenticated, current_user |-> current_user] IN
       \E stocks_with_prices \in ResolvedLists(stocks) :
         /\ shown' = MainPage(session, stocks_with_prices)
         /\ IF shown'.stage = "dashboard"
            THEN /\ user' = current_user
                 /\ updated_stocks' = stocks_with_prices
                 /\ failed_symbols' = Symbols(SelectSeq(stocks_with_prices, IsDefault))
            ELSE /\ user' = NoUser
                 /\ updated_stocks' = <<>>
                 /\ failed_symbols' = <<>>
    /\ pc' = "idle"
    /\ UNCHANGED <<call, stocks, period, i, lookups>>
    /\ UNCHANGED <<appvars, authvars, msgvars>>

SessionNext == LoginSubmit \/ Logout \/ SessionRun

SpecSession == SessionInit /\ [][SessionNext]_vars

(***************************************************************************)
(* Properties of the session.                                              *)
(***************************************************************************)

InSession == call = "session"

\* a step in which the login form called authenticate
LoginAttempt ==
    /\ InSession /\ pc = "idle" /\ shown.stage = "login_form"
    /\ Has(shown', "result") /\ shown'.result # "-"
    /\ pc' \in {"idle", "rerun"} /\ shown' # shown

\* the configured users with that username and that password
Matching(username, password) ==
    {u \in Range(USERS) : u.username = username /\ u.password = password}

\* C26: authenticate returns True exactly if a configured user has that
\* username and that password; the session is then authenticated with that
\* user as current_user; otherwise it returns False and the session's
\* authenticated flag and current_user are as before.
C26_AuthenticateIffConfigured ==
    [][ LoginAttempt =>
          LET matching == Matching(shown'.username, shown'.password) IN
          /\ shown'.result = "True" <=> matching # {}
          /\ shown'.result \in {"True", "False"}
          /\ matching # {} => (authenticated' = TRUE /\ current_user' \in matching)
          /\ matching = {} =>
                (authenticated' = authenticated /\ current_user' = current_user)
      ]_vars

\* C26 witness: the name of one configured user with the password of
\* another was refused and the session is not authenticated.
C26_Witness ==
    /\ InSession /\ Has(shown, "result")
    /\ shown.username = "kremer" /\ shown.password = "password"
    /\ shown.result = "False"
    /\ authenticated = FALSE /\ current_user = NoUser

\* C26, reached as well: a configured pair was accepted.
C26_AcceptedReached ==
    /\ InSession /\ Has(shown, "result")
    /\ shown.username = "kremer" /\ shown.password = "kremer1"
    /\ shown.result = "True"
    /\ authenticated = TRUE /\ current_user.username = "kremer"

C27_LoggedOutReached ==
    /\ InSession /\ pc = "rerun" /\ authenticated = FALSE /\ current_user = NoUser
    /\ shown = NothingShown

(***************************************************************************)
(* MessageSystem of message_system.py: the weekend message and the login   *)
(* records of user_data.json.  One session calls at a time; a time is the  *)
(* clock's reading, which stands for its isoformat string.                 *)
(***************************************************************************)

\* the clock of the message system stops here
MaxClock == 1

\* the users who call, one of each language
CallerNames == {"kremer", "user"}

\* the portfolio values they call with
CallerValues == {5, 7}

\* now_et.weekday() can be: Friday, Saturday, Sunday
EasternDays == {4, 5, 6}

\* what datetime.now gives: whether pytz has the zone, the weekday in
\* US/Eastern and the weekday of the host's local time, the same or a day on
Calendars ==
    { c \in [timezone_loaded : BOOLEAN, eastern : EasternDays, local : 0..6] :
        c.local \in {c.eastern, (c.eastern + 1) % 7} }

\* None where a message is expected
NoMessage == [type |-> "None"]

\* the contents of user_messages.json a call can find
StoredMessages ==
    { EmptyDict,
      [kremer |-> [one_time |-> <<[id |-> 0, message |-> "hello", type |-> "success",
                                    created |-> 0]>>,
                   dismissed |-> <<>>]] }

\* the weekday get_weekend_message looks at: that of US/Eastern, or the
\* local one if pytz.timezone raised
NowEtWeekday(calendar) ==
    IF calendar.timezone_loaded THEN calendar.eastern ELSE calendar.local

\* the text of the weekend message
WeekendText(lang) == IF lang = "de" THEN "Es ist Wochenende." ELSE "It's the weekend."

\* get_weekend_message
GetWeekendMessage(username, calendar) ==
    IF NowEtWeekday(calendar) \in {5, 6}
    THEN [message |-> WeekendText(GetLanguage(username)), type |-> "info",
          is_weekend |-> TRUE]
    ELSE NoMessage

\* mutant of GetUserMessages: the stored one-time messages are returned too
GetUserMessagesWithStored(username, current_portfolio_value, calendar, stored) ==
    LET weekend_msg == GetWeekendMessage(username, calendar)
        one_time == IF Has(stored, username) THEN stored[username].one_time ELSE <<>>
    IN  (IF weekend_msg # NoMessage THEN <<weekend_msg>> ELSE <<>>) \o one_time

\* get_user_messages, with what it could read: the clock and the message file
GetUserMessages(username, current_portfolio_value, calendar, stored) ==
    LET weekend_msg == GetWeekendMessage(username, calendar)
    IN  IF weekend_msg # NoMessage THEN <<weekend_msg>> ELSE <<>>

\* mutant of UpdateLastLogin: the previous fields are shifted after the update
UpdateLastLoginShiftAfter(data, username, portfolio_value, t) ==
    LET loaded == IF Has(data, username) THEN data ELSE Put(data, username, EmptyDict)
        record == loaded[username]
        updated == Put(Put(record, "last_login", t), "last_portfolio_value", portfolio_value)
    IN  Put(loaded, username,
            Put(Put(updated, "previous_login", updated.last_login),
                "previous_portfolio_value", updated.last_portfolio_value))

\* update_last_login: the content of user_data.json it saves
UpdateLastLogin(data, username, portfolio_value, t) ==
    LET loaded == IF Has(data, username) THEN data ELSE Put(data, username, EmptyDict)
        record == loaded[username]
        shifted == Put(Put(record, "previous_login", Get(record, "last_login", None)),
                       "previous_portfolio_value",
                       Get(record, "last_portfolio_value", None))
    IN  Put(loaded, username,
            Put(Put(shifted, "last_login", t), "last_portfolio_value", portfolio_value))

\* the files after MessageSystem()
LoginsInit ==
    /\ call = "message_system"
    /\ stocks = <<>>
    /\ period = "-"
    /\ pc = "logins"
    /\ i = 1
    /\ updated_stocks = <<>>
    /\ failed_symbols = <<>>
    /\ lookups = <<>>
    /\ user = NoUser
    /\ shown = NothingShown
    /\ cache = EmptyCache
    /\ now = 0
    /\ authenticated = FALSE /\ current_user = NoUser
    /\ user_messages \in StoredMessages
    /\ user_data = EmptyDict
    /\ threads = <<>>

\* time passes between two calls
ClockTick ==
    /\ call = "message_system"
    /\ now < MaxClock
    /\ now' = now + 1
    /\ UNCHANGED <<fetchvars, viewvars, cache, authvars, msgvars>>

\* show_messages(username, current_portfolio_value), as main() calls it
ShowMessages ==
    /\ call = "message_system" /\ pc = "logins"
    /\ \E username \in CallerNames, value \in CallerValues, calendar \in Calendars :
         LET messages == GetUserMessages(username, value, calendar, user_messages) IN
         /\ shown' = [stage |-> "show_messages", username |-> username, value |-> value,
                      calendar |-> calendar, at |-> now, messages |-> messages]
         /\ user_data' = IF messages = <<>> THEN user_data
                         ELSE UpdateLastLogin(user_data, username, value, now)
    /\ UNCHANGED <<fetchvars, user, appvars, authvars, user_messages, threads>>

\* update_last_login(username, portfolio_value), called on its own
UpdateLastLoginCall ==
    /\ call = "message_system" /\ pc = "logins"
    /\ \E username \in CallerNames, value \in CallerValues :
         /\ shown' = [stage |-> "update_last_login", username |-> username,
                      value |-> value, at |-> now]
         /\ user_data' = UpdateLastLogin(user_data, username, value, now)
    /\ UNCHANGED <<fetchvars, user, appvars, authvars, user_messages, threads>>

LoginsNext == ClockTick \/ ShowMessages \/ UpdateLastLoginCall

SpecLogins == LoginsInit /\ [][LoginsNext]_vars

(***************************************************************************)
(* Properties of the weekend message and of the login records.             *)
(***************************************************************************)

\* show_messages has just been called
MessagesShown == call = "message_system" /\ shown.stage = "show_messages"

\* the weekend message for a user, as the claims describe it
IsWeekendMessageFor(msg, username) ==
    /\ DOMAIN msg = {"message", "type", "is_weekend"}
    /\ msg.is_weekend = TRUE /\ msg.type = "info"
    /\ msg.message = IF username \in {"juergen", "kremer"}
                     THEN "Es ist Wochenende." ELSE "It's the weekend."

\* the messages are the weekend message alone on a weekend, none otherwise
WeekendOnly(messages, username, weekend) ==
    IF weekend THEN Len(messages) = 1 /\ IsWeekendMessageFor(messages[1], username)
    ELSE messages = <<>>

C21_FallbackReached ==
    /\ MessagesShown
    /\ ~shown.calendar.timezone_loaded
    /\ shown.calendar.eastern = 4 /\ shown.calendar.local = 5
    /\ Len(shown.messages) = 1

\* C22: when show_messages(username, value) has returned, the stored
\* last_portfolio_value of the user is value and last_login is the time of
\* the call, also if there was no message to display.
C22_LastLoginUpdated ==
    MessagesShown =>
        /\ Has(user_data, shown.username)
        /\ user_data[shown.username].last_portfolio_value = shown.value
        /\ user_data[shown.username].last_login = shown.at

\* C22 for the calls that display a message: the record is updated.
C22_UpdatedAfterAMessage ==
    (MessagesShown /\ shown.messages # <<>>) =>
        /\ Has(user_data, shown.username)
        /\ user_data[shown.username].last_portfolio_value = shown.value
        /\ user_data[shown.username].last_login = shown.at

\* a step that is a call of update_last_login, on its own or at the end of
\* show_messages
UpdateStep ==
    /\ call = "message_system" /\ now' = now
    /\ \/ shown'.stage = "update_last_login"
       \/ shown'.stage = "show_messages" /\ shown'.messages # <<>>

\* C23: update_last_login(username, value) makes previous_login and
\* previous_portfolio_value what last_login and last_portfolio_value were
\* (None if the user had none), sets last_portfolio_value to value and
\* last_login to the time of the call, and leaves the records of the other
\* users as they were; hence, after any calls, previous_portfolio_value is
\* the value of the call before the latest.
C23_RecordShifted ==
    [][ UpdateStep =>
          LET u == shown'.username
              old == IF Has(user_data, u) THEN user_data[u] ELSE EmptyDict
              new == user_data'[u]
          IN  /\ DOMAIN user_data' = DOMAIN user_data \cup {u}
              /\ new.previous_login = (IF Has(old, "last_login") THEN old.last_login ELSE None)
              /\ new.previous_portfolio_value =
                    (IF Has(old, "last_portfolio_value") THEN old.last_portfolio_value
                     ELSE None)
              /\ new.last_portfolio_value = shown'.value
              /\ new.last_login = now
              /\ \A other \in DOMAIN user_data \ {u} : user_data'[other] = user_data[other]
      ]_vars

\* C23 witness: after a call with 5 at time 0 and a call with 7 at time 1
\* for one user, next to the record of another user.
C23_Witness ==
    /\ call = "message_system" /\ shown.stage = "update_last_login"
    /\ shown.username = "kremer" /\ shown.value = 7
    /\ DOMAIN user_data = {"kremer", "user"}
    /\ user_data["kremer"] = [previous_login |-> 0, previous_portfolio_value |-> 5,
                              last_login |-> 1, last_portfolio_value |-> 7]
    /\ user_data["user"].previous_login = None

(***************************************************************************)
(* MessageSystem: the one-time messages of user_messages.json.  One        *)
(* session calls at a time; the id of a message, msg_<timestamp>, is the   *)
(* clock's reading.                                                        *)
(***************************************************************************)

\* most messages a user has in the file, the dismissed ones included
MaxPerUser == 2

\* the usernames add_one_time_message is called with
AddNames == {"kremer"}

\* the usernames dismiss_message is called with: two users and a name the
\* file does not have
DismissNames == {"kremer", "user", "nobody"}

\* the contents of user_messages.json at the start: nothing, or a message
\* for a name that is not in USERS
InitialMessages ==
    { EmptyDict,
      [guest |-> [one_time |-> <<[id |-> 0, message |-> "hello", type |-> "info",
                                   created |-> 0]>>,
                  dismissed |-> <<>>]] }

\* the texts and the types of the messages
Texts == {"hello"}

Types == {"info", "success"}

\* the ids dismiss_message is called with: MaxClock + 1 is the id of no message
Ids == 0..(MaxClock + 1)

\* the entry add_one_time_message creates for a user who has none
NewEntry == [one_time |-> <<>>, dismissed |-> <<>>]

\* the number of messages a user has in the file
StoredFor(messages, username) ==
    IF Has(messages, username)
    THEN Len(messages[username].one_time) + Len(messages[username].dismissed)
    ELSE 0

\* mutant of AddOneTimeMessage: the new message replaces the list
AddOneTimeMessageReplacing(messages, username, message, message_type, t) ==
    LET loaded == IF Has(messages, username) THEN messages
                  ELSE Put(messages, username, NewEntry)
        message_data == [id |-> t, message |-> message, type |-> message_type,
                         created |-> t]
    IN  Put(loaded, username,
            [loaded[username] EXCEPT !.one_time = <<message_data>>])

\* add_one_time_message: the content of user_messages.json it saves
AddOneTimeMessage(messages, username, message, message_type, t) ==
    LET loaded == IF Has(messages, username) THEN messages
                  ELSE Put(messages, username, NewEntry)
        message_data == [id |-> t, message |-> message, type |-> message_type,
                         created |-> t]
    IN  Put(loaded, username,
            [loaded[username] EXCEPT !.one_time = Append(@, message_data)])

\* add_global_one_time_message, its loop from USERS[k] on
RECURSIVE AddGlobalOneTimeMessage(_, _, _, _, _)
AddGlobalOneTimeMessage(k, messages, message, message_type, t) ==
    IF k > Len(USERS) THEN messages
    ELSE AddGlobalOneTimeMessage(k + 1,
            AddOneTimeMessage(messages, USERS[k].username, message, message_type, t),
            message, message_type, t)

\* the position of the first message with that id, 0 if there is none
FirstWithId(s, message_id) ==
    IF \E k \in DOMAIN s : s[k].id = message_id
    THEN CHOOSE k \in DOMAIN s :
            /\ s[k].id = message_id
            /\ \A j \in 1..(k - 1) : s[j].id # message_id
    ELSE 0

\* list.pop(k)
Pop(s, k) == SubSeq(s, 1, k - 1) \o SubSeq(s, k + 1, Len(s))

\* mutant of DismissMessage: the message is dropped, not kept as dismissed
DismissMessageDropped(messages, username, message_id) ==
    IF ~Has(messages, username) THEN messages
    ELSE LET one_time_messages == messages[username].one_time
             k == FirstWithId(one_time_messages, message_id)
         IN  IF k = 0 THEN messages
             ELSE Put(messages, username,
                      [messages[username] EXCEPT !.one_time = Pop(one_time_messages, k)])

\* dismiss_message: the content of user_messages.json afterwards
DismissMessage(messages, username, message_id) ==
    IF ~Has(messages, username) THEN messages
    ELSE LET one_time_messages == messages[username].one_time
             dismissed_messages == messages[username].dismissed
             k == FirstWithId(one_time_messages, message_id)
         IN  IF k = 0
             THEN Put(messages, username,
                      [one_time |-> one_time_messages, dismissed |-> dismissed_messages])
             ELSE Put(messages, username,
                      [one_time |-> Pop(one_time_messages, k),
                       dismissed |-> Append(dismissed_messages, one_time_messages[k])])

\* the files after MessageSystem()
MessagesInit ==
    /\ call = "message_system"
    /\ stocks = <<>>
    /\ period = "-"
    /\ pc = "messages"
    /\ i = 1
    /\ updated_stocks = <<>>
    /\ failed_symbols = <<>>
    /\ lookups = <<>>
    /\ user = NoUser
    /\ shown = NothingShown
    /\ cache = EmptyCache
    /\ now = 0
    /\ authenticated = FALSE /\ current_user = NoUser
    /\ user_messages \in InitialMessages
    /\ user_data = EmptyDict
    /\ threads = <<>>

\* add_one_time_message(username, message, message_type)
AddOneTimeMessageCall ==
    /\ call = "message_system" /\ pc = "messages"
    /\ \E username \in AddNames, message \in Texts, message_type \in Types :
         /\ StoredFor(user_messages, username) < MaxPerUser
         /\ shown' = [stage |-> "add_one_time_message", username |-> username,
                      message |-> message, type |-> message_type]
         /\ user_messages' =
                AddOneTimeMessage(user_messages, username, message, message_type, now)
    /\ UNCHANGED <<fetchvars, user, appvars, authvars, user_data, threads>>

\* add_global_one_time_message(message, message_type)
AddGlobalOneTimeMessageCall ==
    /\ call = "message_system" /\ pc = "messages"
    /\ \A k \in DOMAIN USERS : StoredFor(user_messages, USERS[k].username) < MaxPerUser
    /\ \E message \in Texts, message_type \in Types :
         /\ shown' = [stage |-> "add_global_one_time_message",
                      message |-> message, type |-> message_type]
         /\ user_messages' =
                AddGlobalOneTimeMessage(1, user_messages, message, message_type, now)
    /\ UNCHANGED <<fetchvars, user, appvars, authvars, user_data, threads>>

\* dismiss_message(username, message_id)
DismissMessageCall ==
    /\ call = "message_system" /\ pc = "messages"
    /\ \E username \in DismissNames, message_id \in Ids :
         /\ shown' = [stage |-> "dismiss_message", username |-> username,
                      id |-> message_id]
         /\ user_messages' = DismissMessage(user_messages, username, message_id)
    /\ UNCHANGED <<fetchvars, user, appvars, authvars, user_data, threads>>

MessagesNext ==
    \/ ClockTick \/ AddOneTimeMessageCall \/ AddGlobalOneTimeMessageCall
    \/ DismissMessageCall

SpecMessages == MessagesInit /\ [][MessagesNext]_vars

(***************************************************************************)
(* Properties of the one-time messages.                                    *)
(***************************************************************************)

\* a step that is a call of the named method
MessageCall(method) ==
    /\ call = "message_system" /\ pc = "messages" /\ now' = now
    /\ shown'.stage = method

\* the lists of a user, empty for a user the file does not have
ListsOf(messages, username) ==
    IF Has(messages, username) THEN messages[username] ELSE NewEntry

\* s without its k-th element
Without(s, k) == [j \in 1..(Len(s) - 1) |-> IF j < k THEN s[j] ELSE s[j + 1]]

\* every user of the file has as many messages, dismissed ones included, as before
CountsKept ==
    /\ DOMAIN user_messages' = DOMAIN user_messages
    /\ \A n \in DOMAIN user_messages :
          Len(user_messages'[n].one_time) + Len(user_messages'[n].dismissed)
          = Len(user_messages[n].one_time) + Len(user_messages[n].dismissed)

\* C24: dismiss_message(username, id) takes the first one-time message of
\* the user with that id out of one_time, the others staying in their order,
\* and puts it at the end of dismissed; nothing else changes and every user
\* keeps the number of his messages; with a username the file does not have
\* or an id none of the user's one-time messages has, all lists stay as they
\* were.
C24_DismissMovesFirstMatch ==
    [][ MessageCall("dismiss_message") =>
          LET u == shown'.username
              id == shown'.id
              before == ListsOf(user_messages, u)
              hits == {k \in DOMAIN before.one_time : before.one_time[k].id = id}
          IN  /\ CountsKept
              /\ \A n \in DOMAIN user_messages \ {u} : user_messages'[n] = user_messages[n]
              /\ IF ~Has(user_messages, u) \/ hits = {}
                 THEN user_messages' = user_messages
                 ELSE LET k == CHOOSE x \in hits : \A y \in hits : x <= y IN
                      /\ user_messages'[u].one_time = Without(before.one_time, k)
                      /\ user_messages'[u].dismissed =
                            before.dismissed \o <<before.one_time[k]>>
      ]_vars

\* C24 witness: of two one-time messages with the id 0 the first, of type
\* info, was dismissed and the second, of type success, is left.
C24_Witness ==
    /\ call = "message_system" /\ shown.stage = "dismiss_message"
    /\ shown.username = "kremer" /\ shown.id = 0
    /\ Has(user_messages, "kremer")
    /\ Len(user_messages["kremer"].one_time) = 1
    /\ user_messages["kremer"].one_time[1].id = 0
    /\ user_messages["kremer"].one_time[1].type = "success"
    /\ Len(user_messages["kremer"].dismissed) = 1
    /\ user_messages["kremer"].dismissed[1].id = 0
    /\ user_messages["kremer"].dismissed[1].type = "info"

\* C24, reached as well: a call with an id no message has, on a file with
\* a one-time message of that user.
C24_UnknownIdReached ==
    /\ call = "message_system" /\ shown.stage = "dismiss_message"
    /\ shown.username = "kremer" /\ shown.id = MaxClock + 1
    /\ Has(user_messages, "kremer")
    /\ Len(user_messages["kremer"].one_time) = 1

\* the list is the old one with one message of that text and type at its end
OneAppended(new, old, message, message_type) ==
    /\ Len(new) = Len(old) + 1
    /\ SubSeq(new, 1, Len(old)) = old
    /\ new[Len(new)].message = message
    /\ new[Len(new)].type = message_type

\* the usernames of config.py
ConfiguredNames == {USERS[k].username : k \in DOMAIN USERS}

\* C25: add_one_time_message(username, text, type) puts one message with
\* that text and type at the end of the user's one_time list, on an entry
\* with two empty lists if the user had none, and leaves the user's
\* dismissed list and the lists of every other user as they were;
\* add_global_one_time_message does so for each configured user and leaves
\* the others alone.
C25_OneMessageAppended ==
    [][ /\ MessageCall("add_one_time_message") =>
              LET u == shown'.username
                  before == ListsOf(user_messages, u)
              IN  /\ DOMAIN user_messages' = DOMAIN user_messages \cup {u}
                  /\ OneAppended(user_messages'[u].one_time, before.one_time,
                                 shown'.message, shown'.type)
                  /\ user_messages'[u].dismissed = before.dismissed
                  /\ \A n \in DOMAIN user_messages \ {u} :
                        user_messages'[n] = user_messages[n]
        /\ MessageCall("add_global_one_time_message") =>
              /\ DOMAIN user_messages' = DOMAIN user_messages \cup ConfiguredNames
              /\ \A u \in ConfiguredNames :
                    /\ OneAppended(user_messages'[u].one_time,
                                   ListsOf(user_messages, u).one_time,
                                   shown'.message, shown'.type)
                    /\ user_messages'[u].dismissed = ListsOf(user_messages, u).dismissed
              /\ \A n \in DOMAIN user_messages \ ConfiguredNames :
                    user_messages'[n] = user_messages[n]
      ]_vars

\* C25 witness: a message of type success was added for a user who had a
\* one-time message of type info and a dismissed one, next to the entries
\* of the other users.
C25_Witness ==
    /\ call = "message_system" /\ shown.stage = "add_one_time_message"
    /\ shown.username = "kremer" /\ shown.type = "success"
    /\ Has(user_messages, "kremer") /\ Has(user_messages, "guest")
    /\ Has(user_messages, "user")
    /\ Len(user_messages["kremer"].one_time) = 2
    /\ user_messages["kremer"].one_time[1].type = "info"
    /\ user_messages["kremer"].one_time[2].type = "success"
    /\ Len(user_messages["user"].dismissed) = 1

\* C25, reached as well: a global message after one of the users already had
\* a message.
C25_GlobalReached ==
    /\ call = "message_system" /\ shown.stage = "add_global_one_time_message"
    /\ Has(user_messages, "kremer") /\ Has(user_messages, "juergen")
    /\ Len(user_messages["kremer"].one_time) = 2
    /\ Len(user_messages["juergen"].one_time) = 1
    /\ Has(user_messages, "guest") /\ Len(user_messages["guest"].one_time) = 1

(***************************************************************************)
(* Two sessions on the one MessageSystem instance of message_system.py:    *)
(* Streamlit runs each session's script in a thread of its own, and a      *)
(* method of MessageSystem loads a file, changes the loaded dict and saves *)
(* it, with no lock.  Each session makes one call, for a user of its own.  *)
(***************************************************************************)

Sessions == {1, 2}

\* the user each session calls for
SessionUser(s) == IF s = 1 THEN "kremer" ELSE "foehr"

\* the calls a session can make
SessionCalls(s) ==
    { [method |-> "update_last_login", username |-> SessionUser(s), arg |-> v] :
        v \in CallerValues }
    \cup
    { [method |-> "add_one_time_message", username |-> SessionUser(s), arg |-> ty] :
        ty \in Types }
    \cup
    { [method |-> "dismiss_message", username |-> SessionUser(s), arg |-> 0] }

\* user_messages.json before the calls: each of the two users has a one-time
\* message with the id 0
SharedMessages ==
    [u \in {SessionUser(s) : s \in Sessions} |->
        [one_time |-> <<[id |-> 0, message |-> "earlier", type |-> "info", created |-> 0]>>,
         dismissed |-> <<>>]]

\* the file a method works on
FileOf(method) == IF method = "update_last_login" THEN "user_data" ELSE "user_messages"

\* what the method saves, from what it loaded, at time t
Saved(c, loaded, t) ==
    IF c.method = "update_last_login" THEN UpdateLastLogin(loaded, c.username, c.arg, t)
    ELSE IF c.method = "add_one_time_message"
         THEN AddOneTimeMessage(loaded, c.username, "hello", c.arg, t)
         ELSE DismissMessage(loaded, c.username, c.arg)

\* the method saves: dismiss_message does not for a username it did not load
Saves(c, loaded) == c.method # "dismiss_message" \/ Has(loaded, c.username)

\* the records of the calls: what was called, where it is, what it loaded
Started(th) == [s \in DOMAIN th |-> [call |-> th[s], at |-> "called", loaded |-> EmptyDict]]

RaceInit ==
    /\ call = "message_system"
    /\ stocks = <<>>
    /\ period = "-"
    /\ pc = "sessions"
    /\ i = 1
    /\ updated_stocks = <<>>
    /\ failed_symbols = <<>>
    /\ lookups = <<>>
    /\ user = NoUser
    /\ shown = NothingShown
    /\ cache = EmptyCache
    /\ now = 0
    /\ authenticated = FALSE /\ current_user = NoUser
    /\ user_messages = SharedMessages
    /\ user_data = EmptyDict
    /\ threads \in { Started(th) :
                       th \in { c \in [Sessions -> UNION {SessionCalls(s) : s \in Sessions}] :
                                  \A s \in Sessions : c[s] \in SessionCalls(s) } }

\* a session's method loads its file: _load_user_data or _load_messages
SessionLoad(s) ==
    /\ call = "message_system" /\ pc = "sessions"
    /\ threads[s].at = "called"
    /\ threads' = [threads EXCEPT
                       ![s].at = "loaded",
                       ![s].loaded = IF FileOf(threads[s].call.method) = "user_data"
                                     THEN user_data ELSE user_messages]
    /\ UNCHANGED <<fetchvars, viewvars, appvars, authvars, user_messages, user_data>>

\* a session's method saves what it made of what it loaded, and returns
SessionSave(s) ==
    /\ call = "message_system" /\ pc = "sessions"
    /\ threads[s].at = "loaded"
    /\ LET c == threads[s].call
           loaded == threads[s].loaded
       IN  /\ user_data' = IF FileOf(c.method) = "user_data" /\ Saves(c, loaded)
                           THEN Saved(c, loaded, now) ELSE user_data
           /\ user_messages' = IF FileOf(c.method) = "user_messages" /\ Saves(c, loaded)
                               THEN Saved(c, loaded, now) ELSE user_messages
    /\ threads' = [threads EXCEPT ![s].at = "returned"]
    /\ UNCHANGED <<fetchvars, viewvars, appvars, authvars>>

RaceNext == ClockTick \/ \E s \in Sessions : SessionLoad(s) \/ SessionSave(s)

SpecRace == RaceInit /\ [][RaceNext]_vars

(***************************************************************************)
(* Properties of the two sessions.                                         *)
(***************************************************************************)

\* both calls have returned
BothReturned ==
    /\ call = "message_system" /\ pc = "sessions"
    /\ \A s \in Sessions : threads[s].at = "returned"

\* the files show the update of the call c
UpdatePresent(c) ==
    IF c.method = "update_last_login"
    THEN /\ Has(user_data, c.username)
         /\ user_data[c.username].last_portfolio_value = c.arg
    ELSE /\ Has(user_messages, c.username)
         /\ IF c.method = "add_one_time_message"
            THEN \E k \in DOMAIN user_messages[c.username].one_time :
                    /\ user_messages[c.username].one_time[k].message = "hello"
                    /\ user_messages[c.username].one_time[k].type = c.arg
            ELSE /\ \E k \in DOMAIN user_messages[c.username].dismissed :
                       user_messages[c.username].dismissed[k].message = "earlier"
                 /\ \A k \in DOMAIN user_messages[c.username].one_time :
                       user_messages[c.username].one_time[k].message # "earlier"

\* C30: when the calls of two sessions, for two different users, have both
\* returned, the files show the update of each, however their loads and
\* saves were interleaved.
C30_BothUpdatesPresent ==
    BothReturned => \A s \in Sessions : UpdatePresent(threads[s].call)

\* C30, what does hold: when a call returns, the files show its own update.
C30_OwnUpdatePresentAtReturn ==
    [][ \A s \in Sessions :
          (call = "message_system" /\ pc = "sessions"
           /\ threads[s].at = "loaded" /\ threads'[s].at = "returned")
          => UpdatePresent(threads[s].call)'
      ]_vars

====
